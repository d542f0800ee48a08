------------------------------- MODULE MCAuth -------------------------------
(* Values of the constants of Auth for TLC. *)
EXTENDS Auth

\* A capital is another spelling of its small letter.
LowerOn(S) == [s \in S |-> IF s = "A" THEN "a" ELSE s]
LoweredEmails == LowerOn(Emails)
LoweredNames == LowerOn(Names)
=============================================================================
