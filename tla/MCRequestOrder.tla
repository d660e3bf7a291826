---------------------------- MODULE MCRequestOrder ----------------------------
(* Instances of RequestOrder for TLC. *)
EXTENDS RequestOrder

(* Four clients, one of them unauthenticated, with one request each. *)
OneEach == "r1" :> "anon" @@ "r2" :> "alice" @@ "r3" :> "bob" @@ "r4" :> "carol"

(* Two requests of one user, one of another. *)
TwoOfAlice == "r1" :> "alice" @@ "r2" :> "alice" @@ "r3" :> "bob"

NoSessions == [r \in Requests |-> NoSession]

OneUser == [r \in Requests |-> "alice"]

ThreeSessions == "r1" :> "s1" @@ "r2" :> "s2" @@ "r3" :> "s3"
=============================================================================
