----------------------------- MODULE MCTaskApi -----------------------------
(***************************************************************************)
(* What clients send to TaskApi: tokens of two subjects and two issuers,   *)
(* good, missing or with one or two flaws, and every kind of Basic         *)
(* credentials.                                                            *)
(***************************************************************************)
EXTENDS TaskApi

CONSTANTS Alice, Bob, Home, Elsewhere

Subjects == {Alice, Bob}

Issuers == {Home, Elsewhere}

Flaws ==
  {NoToken} \cup {{check} : check \in Check}
    \cup {{"names iss", "verifies"}, {"key is found", "verifies"}}

Signed(sub, iss, flaws) == [sub |-> sub, iss |-> iss, fails |-> flaws]

Alices == [token |-> Signed(Alice, Home, {}), basic |-> "right"]

Bobs == [token |-> Signed(Bob, Home, {}), basic |-> "wrong"]

\* Another issuer has an Alice too, or signs for anyone it likes.
OtherAlices == [token |-> Signed(Alice, Elsewhere, {}), basic |-> "wrong"]

Sent ==
  {Alices, Bobs, OtherAlices}
    \cup { [token |-> Signed(Alice, Home, flaws), basic |-> "absent"] : flaws \in Flaws }

=============================================================================
