------------------------------- MODULE MCRequests -------------------------------
(***************************************************************************)
(* Values of the constants of ApiRequests for TLC: two users, an address   *)
(* and a slug typed in two ways, two passwords (texts).                    *)
(***************************************************************************)
EXTENDS ApiRequests, TLC

CONSTANTS k1, k2, ann, Ann, bob, b1, b2, short

Cleaned == [n \in Names |-> IF n = Ann THEN ann ELSE n]

Argon2id == [b \in Bodies |-> ((b1 :> "h1") @@ (b2 :> "h2") @@ (short :> "h0"))[b]]

Ask(o, n, b, r, i) == [op |-> o, name |-> n, body |-> b, role |-> r, id |-> i]

Broken == Ask("panic", Blank, b1, "", 0)

(* Both use Ann's address and slug, typed in two ways and with different   *)
(* passwords and texts.                                                    *)
SameNames ==
  (k1 :> {Ask("signup", ann, b1, "admin", 0), Ask("signup", ann, b1, "root", 0),
          Ask("signup", ann, short, "", 0), Ask("login", ann, b1, "", 0),
          Ask("createProblem", ann, b1, "", 0), Ask("createProblem", Blank, b1, "", 0),
          Ask("submit", ann, b1, "", 0), Ask("listSubmissions", Blank, b1, "", 0),
          Ask("listSubmissions", Blank, short, "", 0),
          Ask("events", Blank, b1, "", 1), Broken})
  @@
  (k2 :> {Ask("signup", Ann, b2, "", 0), Ask("login", Ann, b2, "", 0),
          Ask("login", ann, b1, "", 0), Ask("createProblem", Ann, b2, "", 0),
          Ask("listProblems", Blank, b1, "", 0), Ask("getProblem", Ann, b1, "", 0)})

(* Ann is an admin who posts the problem and solves it; bob only looks at  *)
(* what there is, filtered by the problem.                                 *)
Views(n) ==
  {Ask("getSubmission", Blank, b1, "", 1), Ask("listSubmissions", n, b1, "", 0),
   Ask("events", Blank, b1, "", 1)}

PostAndLook ==
  (k1 :> {Ask("signup", ann, b1, "admin", 0), Ask("login", ann, b1, "", 0),
          Ask("createProblem", ann, b1, "", 0), Ask("submit", ann, b1, "", 0),
          Ask("listProblems", Blank, b1, "", 0)}
         \cup Views(Blank))
  @@
  (k2 :> {Ask("signup", bob, b1, "", 0), Ask("login", bob, b1, "", 0), Broken} \cup Views(ann))

Once(kinds) == [k \in EventKinds |-> IF k \in kinds THEN 1 ELSE 0]

EachOnce == Once({"db", "role", "expiry"})
Faulty   == Once({"db", "crash"})
=============================================================================
