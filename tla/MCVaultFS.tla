----------------------------- MODULE MCVaultFS -----------------------------
(* One secret, one mapped file, and one mapped file that takes both of its *)
(* values from the secret.                                                 *)
EXTENDS VaultFS

CONSTANTS p1, p2, secret, plain, injected

MCOne == {p1}
MCTwo == {p1, p2}
MCSecret == {secret}
MCPlain == {plain}
MCInjected == {injected}
MCNone == {}
MCInjections == injected :> <<secret, secret>>
MCNoInjections == <<>>
\* The second version has lost a placeholder.
MCInText == <<{1, 2}, {2}>>
MCInTextOfOne == <<{1, 2}>>
\* The second version is shorter.
MCShrinks == <<2, 1>>
MCThreeFields == <<3>>
=============================================================================
