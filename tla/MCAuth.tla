-------------------------------- MODULE MCAuth --------------------------------
(* Instances of Auth for TLC. *)
EXTENDS Auth, TLC

\* Requests, session tokens, ceremony tokens and passwords are interchangeable.
AuthSymmetry == Permutations(Requests) \cup Permutations(Sessions)
                \cup Permutations(Ceremonies) \cup Permutations(Passwords)
===============================================================================
