---------------------------- MODULE MCGoogleOAuth ----------------------------
(* Small instances of GoogleOAuth for TLC.                                 *)
EXTENDS GoogleOAuth, TLC

CONSTANTS s1, s2, a, b

\* One account has the address, the other may get it.
OneAddress == (s1 :> a) @@ [s \in Subjects |-> None]

\* Each account has an address of its own.
TwoAddresses == (s1 :> a) @@ (s2 :> b)

\* Browsers, requests and flows are told apart by nothing but their names.
Symmetry == Permutations(Browsers) \cup Permutations(Requests) \cup Permutations(LoginFlows)
            \cup Permutations(DriveFlows)

=============================================================================
