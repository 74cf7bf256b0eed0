----------------------------- MODULE MCBuilder -----------------------------
(* Two requests, each with any of the configurations below. *)
EXTENDS Builder, TLC

CONSTANTS b1, b2, shared, other, v100, v101, acme, custom

MCBuilds == {b1, b2}
MCOneBuild == {b1}
MCDirs == {shared, other}
MCSeries == (v100 :> "1.0" @@ v101 :> "1.0")

Plain == [work |-> shared, source |-> shared, out |-> shared, policy |-> "none",
          embedFromURL |-> FALSE, embedFiles |-> FALSE, os |-> "linux",
          version |-> v100, tag |-> None, filename |-> None]

\* Other builds of the same version, a file name of its own, another output directory.
Named == {Plain, [Plain EXCEPT !.tag = acme], [Plain EXCEPT !.version = v101, !.os = "windows"],
          [Plain EXCEPT !.filename = custom], [Plain EXCEPT !.filename = custom, !.os = "darwin"],
          [Plain EXCEPT !.out = other]}

Downloaded == [Plain EXCEPT !.policy = "url", !.embedFromURL = TRUE, !.tag = acme]

MCConfigs == Named \cup
             {Downloaded, [Downloaded EXCEPT !.embedFiles = TRUE],
              [Plain EXCEPT !.policy = "local", !.embedFiles = TRUE, !.work = other]}

MCSymmetry == Permutations(MCBuilds)
=============================================================================
