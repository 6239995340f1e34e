------------------------------- MODULE ServerProofs -------------------------------
(***************************************************************************)
(* Theorems about ApiRequests and ApiServer, for any number of clients,    *)
(* names and requests and any sequence of faults, crashes and shutdowns.   *)
(* A step of one client leaves the others alone, except that the tables    *)
(* grow: so each action is shown to keep what is said of its client, and   *)
(* one lemma does the rest.                                                *)
(***************************************************************************)
EXTENDS ApiServer, TLAPS

USE RequestsAssumption DEF tables, sessions, calls, history, EventKinds

(* What the invariant says of one client.                                  *)
Sound(c) ==
  /\ TokenSound(c) /\ Witnessed(c) /\ ShownAtTheEnd(c) /\ KnownExists(c)
  /\ pc[c] = "reply" => AnswerTrue(c)
  /\ At(c, "call", "createProblem") => c \in wasAdmin
  /\ SeesOwn(c)
  /\ pc[c] = "reply" => FindsItsWrites(c)

(* The invariant is what it says of each client, and the types.            *)
LEMMA InvByClient == IndInv <=> TypeOK /\ \A c \in Clients : Sound(c)
  BY DEF IndInv, Bookkeeping, Promises, AnswersTrue, AdminWhenCreating, OwnRowsOnly,
         ReadYourWrites, Sound

(* No row is ever changed or deleted, up to roles.                         *)
Grows ==
  /\ \A n \in Names : password[n] # None => password'[n] = password[n]
  /\ \A n \in Names : problems[n] # None => problems'[n] = problems[n]
  /\ \A i \in DOMAIN subs : i \in DOMAIN subs' /\ subs'[i] = subs[i]

(* The step is not one of client c.                                        *)
Passive(c) ==
  /\ pc'[c] = pc[c] /\ req'[c] = req[c] /\ code'[c] = code[c] /\ shown'[c] = shown[c]
  /\ token'[c] = token[c] /\ acked'[c] = acked[c]
  /\ c \in wasAdmin => c \in wasAdmin'
  /\ c \in wasAdmin' => c \in wasAdmin \/ pc[c] # "idle"
  /\ token[c] # None /\ role'[token[c]] = "admin" /\ pc[c] # "idle" =>
       role[token[c]] = "admin" \/ c \in wasAdmin'

(* What a request in hand consists of.                                     *)
LEMMA RequestParts ==
  ASSUME TypeOK, NEW c \in Clients, pc[c] # "idle"
  PROVE  /\ req[c] \in AllRequests
         /\ req[c].op \in Public \cup Protected
         /\ req[c].name \in Names /\ Key(c) \in Names
         /\ req[c].body \in Bodies /\ req[c].id \in Nat
<1>1. req[c] \in AllRequests
  BY DEF TypeOK, CallTypes
<1> QED BY <1>1 DEF AllRequests, Key

(* While the tables only grow, what is said of a client that takes no part *)
(* stays true.                                                             *)
LEMMA PassiveStaysSound ==
  ASSUME TypeOK, NEW c \in Clients, Sound(c), Grows, Passive(c)
  PROVE  Sound(c)'
<1>1. token[c] \in Names \cup {None}
  BY DEF TypeOK, CallTypes
<1>2. TokenSound(c)' /\ Witnessed(c)' /\ ShownAtTheEnd(c)'
  BY <1>1
     DEF Sound, TokenSound, Witnessed, ShownAtTheEnd, IsAdmin, Grows, Passive
<1>3. KnownExists(c)'
  BY DEF Sound, KnownExists, Exists, Grows, Passive
<1>4. ASSUME pc[c] # "idle" PROVE (pc[c] = "reply" => AnswerTrue(c))'
  <2>1. Key(c)' = Key(c) /\ Key(c) \in Names
    BY <1>4, RequestParts DEF Key, Passive
  <2>2. \A b \in Bodies : Digest[b] # None /\ b # None
    BY DEF Digests
  <2>3. req[c].body \in Bodies
    BY <1>4, RequestParts
  <2> QED BY <2>1, <2>2, <2>3 DEF Sound, AnswerTrue, Grows, Passive
<1>5. (At(c, "call", "createProblem") => c \in wasAdmin)'
  BY DEF Sound, At, Passive
<1>6. SeesOwn(c)'
  BY DEF Sound, SeesOwn, Own, Grows, Passive
<1>7. (pc[c] = "reply" => FindsItsWrites(c))'
  BY DEF Sound, KnownExists, FindsItsWrites, Own, Grows, Passive
<1>8. (pc[c] = "reply" => AnswerTrue(c))'
  BY <1>4 DEF Passive
<1> QED BY <1>2, <1>3, <1>5, <1>6, <1>7, <1>8 DEF Sound

(* A step of client c keeps the invariant if it keeps what is said of c.   *)
LEMMA StepOfOne ==
  ASSUME IndInv, NEW c \in Clients, TypeOK', Grows, Sound(c)',
         \A d \in Clients \ {c} : Passive(d)
  PROVE  IndInv'
<1>1. \A d \in Clients : Sound(d)'
  <2> TAKE d \in Clients
  <2>1. CASE d = c
    BY <2>1
  <2>2. CASE d # c
    BY <2>2, InvByClient, PassiveStaysSound
  <2> QED BY <2>1, <2>2
<1>2. IndInv' <=> TypeOK' /\ \A d \in Clients : Sound(d)'
  BY DEF IndInv, Bookkeeping, Promises, AnswersTrue, AdminWhenCreating, OwnRowsOnly,
         ReadYourWrites, Sound
<1> QED BY <1>1, <1>2

(* Events that are used up leave a budget.                                 *)
LEMMA BudgetLeft ==
  ASSUME TypeOK, UNCHANGED budget \/ \E k \in EventKinds : Happens(k)
  PROVE  budget' \in [EventKinds -> Nat]
<1>1. budget \in [EventKinds -> Nat]
  BY DEF TypeOK, CallTypes
<1>2. ASSUME NEW k \in EventKinds, Happens(k) PROVE budget' \in [EventKinds -> Nat]
  <2>1. budget[k] - 1 \in Nat
    BY <1>1, <1>2 DEF Happens
  <2> QED BY <1>1, <1>2, <2>1 DEF Happens
<1> QED BY <1>1, <1>2

(* Nobody's role changes under a token.                                    *)
RolesKept == \A d \in Clients : token[d] # None => role'[token[d]] = role[token[d]]

(* An answer keeps the invariant if it is true and shows what it may.      *)
LEMMA KeepsAnswer ==
  ASSUME IndInv, NEW c \in Clients, NEW k \in Codes, pc[c] \in {"role", "call"},
         Answer(c, k), TableTypes', Grows, RolesKept, UNCHANGED <<sessions, history>>,
         UNCHANGED budget \/ \E e \in EventKinds : Happens(e),
         shown' \in [Clients -> SUBSET (Names \cup Nat)],
         \A d \in Clients \ {c} : shown'[d] = shown[d],
         KnownExists(c)', AnswerTrue(c)', SeesOwn(c)', FindsItsWrites(c)'
  PROVE  IndInv'
<1>1. CallTypes
  BY DEF IndInv, TypeOK
<1>2. /\ pc' = [pc EXCEPT ![c] = "reply"] /\ code' = [code EXCEPT ![c] = k] /\ req' = req
      /\ UNCHANGED <<token, expired, wasAdmin, acked>>
  BY DEF Answer
<1>3. CallTypes'
  <2>1. budget' \in [EventKinds -> Nat]
    BY BudgetLeft DEF IndInv
  <2>2. pc' \in [Clients -> Labels] /\ code' \in [Clients -> Codes]
    BY <1>1, <1>2 DEF CallTypes, Labels
  <2>3. \A d \in Clients : pc'[d] = "idle" <=> req'[d] = None
    BY <1>1, <1>2 DEF CallTypes
  <2> QED BY <1>1, <1>2, <2>1, <2>2, <2>3 DEF CallTypes
<1>4. Sound(c)
  BY InvByClient
<1>5. TokenSound(c)' /\ Witnessed(c)' /\ ShownAtTheEnd(c)'
  BY <1>1, <1>2, <1>4
     DEF CallTypes, Sound, TokenSound, Witnessed, ShownAtTheEnd, IsAdmin, Grows, RolesKept
<1>6. pc'[c] = "reply"
  BY <1>1, <1>2 DEF CallTypes
<1>7. Sound(c)'
  BY <1>5, <1>6 DEF Sound, At
<1>8. \A d \in Clients \ {c} : Passive(d)
  BY <1>1, <1>2 DEF CallTypes, Passive, RolesKept
<1> QED BY <1>3, <1>7, <1>8, StepOfOne DEF TypeOK

(* So a refusal that shows nothing does, whatever has been written.        *)
LEMMA KeepsRefusal ==
  ASSUME IndInv, NEW c \in Clients, NEW k \in {400, 401, 403, 500},
         pc[c] \in {"role", "call"}, Answer(c, k),
         TableTypes', Grows, RolesKept, UNCHANGED <<shown, sessions, history>>,
         UNCHANGED budget \/ \E e \in EventKinds : Happens(e)
  PROVE  IndInv'
<1>1. CallTypes /\ Sound(c)
  BY InvByClient DEF IndInv, TypeOK
<1>2. shown[c] = {} /\ shown'[c] = {} /\ code'[c] = k
  BY <1>1 DEF Sound, ShownAtTheEnd, Answer, CallTypes
<1>3. KnownExists(c)'
  BY <1>1, <1>2 DEF Sound, KnownExists, Exists, Grows
<1>4. AnswerTrue(c)' /\ SeesOwn(c)' /\ FindsItsWrites(c)'
  BY <1>2 DEF AnswerTrue, SeesOwn, FindsItsWrites
<1>5. k \in Codes /\ shown' \in [Clients -> SUBSET (Names \cup Nat)]
  BY <1>1 DEF Codes, CallTypes
<1> QED BY <1>3, <1>4, <1>5, KeepsAnswer

(* A statement that changes nothing leaves tables that have grown.         *)
LEMMA TablesStay ==
  ASSUME IndInv, UNCHANGED tables
  PROVE  TableTypes' /\ Grows /\ RolesKept
  BY DEF IndInv, TypeOK, TableTypes, Grows, RolesKept

(* The INSERT of an account.                                               *)
LEMMA UserInserted ==
  ASSUME IndInv, NEW c \in Clients, pc[c] = "call", req[c].op = "signup",
         ValidRole(c), EmailFree(c), InsertUser(c)
  PROVE  /\ TableTypes' /\ Grows /\ RolesKept
         /\ password'[Key(c)] = Digest[req[c].body]
<1>1. Key(c) \in Names /\ req[c].body \in Bodies
  BY RequestParts DEF IndInv
<1>2. TableTypes /\ CallTypes
  BY DEF IndInv, TypeOK
<1>3. SignupRole(req[c]) \in Roles /\ Digest[req[c].body] \in Digests
  BY <1>1 DEF ValidRole, Digests
<1>4. /\ password' \in [Names -> Digests \cup {None}]
      /\ role' \in [Names -> Roles \cup {None}]
      /\ problems' = problems /\ subs' = subs
  BY <1>1, <1>2, <1>3 DEF InsertUser, TableTypes
<1>5. Grows /\ password'[Key(c)] = Digest[req[c].body]
  BY <1>1, <1>2, <1>4 DEF InsertUser, TableTypes, EmailFree, Grows
<1>6. RolesKept
  <2>1. \A d \in Clients : token[d] # None => password[token[d]] # None
    BY InvByClient DEF Sound, TokenSound
  <2> QED BY <1>1, <1>2, <2>1 DEF InsertUser, TableTypes, CallTypes, EmailFree, RolesKept
<1> QED BY <1>2, <1>4, <1>5, <1>6 DEF TableTypes

(* The INSERT of a problem.                                                *)
LEMMA ProblemInserted ==
  ASSUME IndInv, NEW c \in Clients, pc[c] = "call", SlugFree(c), InsertProblem(c)
  PROVE  /\ TableTypes' /\ Grows /\ RolesKept
         /\ problems'[Key(c)] = req[c].body /\ req[c].body # None
<1>1. Key(c) \in Names /\ req[c].body \in Bodies
  BY RequestParts DEF IndInv
<1>2. TableTypes
  BY DEF IndInv, TypeOK
<1> QED BY <1>1, <1>2 DEF InsertProblem, TableTypes, SlugFree, Grows, RolesKept

(* The INSERT of a submission.                                             *)
LEMMA SubmissionInserted ==
  ASSUME IndInv, NEW c \in Clients, pc[c] = "call", req[c].op = "submit",
         InsertSubmission(c)
  PROVE  /\ TableTypes' /\ Grows /\ RolesKept
         /\ Len(subs) + 1 \in DOMAIN subs' /\ Len(subs) + 1 \in Nat
<1>1. req[c].name \in Names
  BY RequestParts DEF IndInv
<1>2. TableTypes
  BY DEF IndInv, TypeOK
<1>3. token[c] \in Names
  BY InvByClient DEF Sound, TokenSound, Protected, IndInv, TypeOK, CallTypes
<1> DEFINE row == [user |-> token[c], problem |-> req[c].name]
<1>4. row \in [user : Names, problem : Names] /\ subs' = Append(subs, row)
  BY <1>1, <1>3 DEF InsertSubmission
<1> HIDE DEF row
<1>5. /\ subs' \in Seq([user : Names, problem : Names]) /\ Len(subs') = Len(subs) + 1
      /\ Len(subs) \in Nat
      /\ \A i \in 1..Len(subs) : subs'[i] = subs[i]
  BY <1>2, <1>4 DEF TableTypes
<1>6. DOMAIN subs = 1..Len(subs) /\ DOMAIN subs' = 1..Len(subs')
  BY <1>2, <1>5 DEF TableTypes
<1> QED BY <1>2, <1>5, <1>6 DEF InsertSubmission, TableTypes, Grows, RolesKept

-----------------------------------------------------------------------------
(* One lemma per action: the request comes in.                             *)
LEMMA KeepsReceive ==
  ASSUME IndInv, NEW c \in Clients, NEW r \in AllRequests, NEW l \in Labels \ {"idle"},
         NEW k \in Codes, Receive(c, r, l, k),
         \/ l = "reply" /\ k \in {400, 401, 500}
         \/ l = "role"
         \/ l = "call" /\ r.op # "createProblem",
         l \in {"role", "call"} /\ r.op \in Protected => token[c] # None,
         l # "stream"
  PROVE  IndInv'
<1>1. CallTypes /\ TableTypes /\ Sound(c)
  BY InvByClient DEF IndInv, TypeOK
<1>2. /\ pc' = [pc EXCEPT ![c] = l] /\ req' = [req EXCEPT ![c] = r]
      /\ code' = [code EXCEPT ![c] = k] /\ pc[c] = "idle"
      /\ wasAdmin' = IF IsAdmin(c) THEN wasAdmin \cup {c} ELSE wasAdmin
      /\ UNCHANGED <<shown, token, expired, acked, budget, password, role, problems, subs>>
  BY DEF Receive
<1>3. TypeOK'
  <2>1. /\ pc' \in [Clients -> Labels] /\ code' \in [Clients -> Codes]
        /\ req' \in [Clients -> AllRequests \cup {None}]
        /\ wasAdmin' \subseteq Clients
    BY <1>1, <1>2 DEF CallTypes
  <2>2. \A d \in Clients : pc'[d] = "idle" <=> req'[d] = None
    BY <1>1, <1>2 DEF CallTypes
  <2>3. CallTypes'
    BY <1>1, <1>2, <2>1, <2>2 DEF CallTypes
  <2> QED BY <1>1, <1>2, <2>3 DEF TypeOK, TableTypes
<1>4. pc'[c] = l /\ req'[c] = r /\ code'[c] = k /\ shown'[c] = {}
  BY <1>1, <1>2 DEF CallTypes, Sound, ShownAtTheEnd
<1>5. TokenSound(c)' /\ Witnessed(c)' /\ ShownAtTheEnd(c)' /\ KnownExists(c)'
  BY <1>1, <1>2, <1>4
     DEF Sound, TokenSound, Witnessed, IsAdmin, ShownAtTheEnd, KnownExists, Exists
<1>6. /\ (pc[c] = "reply" => AnswerTrue(c))' /\ SeesOwn(c)'
      /\ (pc[c] = "reply" => FindsItsWrites(c))'
      /\ (At(c, "call", "createProblem") => c \in wasAdmin)'
  BY <1>4 DEF AnswerTrue, SeesOwn, FindsItsWrites, At
<1>7. Sound(c)'
  BY <1>5, <1>6 DEF Sound
<1>8. Grows /\ \A d \in Clients \ {c} : Passive(d)
  BY <1>1, <1>2 DEF CallTypes, Grows, Passive
<1> QED BY <1>3, <1>7, <1>8, StepOfOne

(* A request that arrives.                                                 *)
LEMMA KeepsArrive ==
  ASSUME IndInv, NEW c \in Clients, NEW r \in AllRequests, Arrive(c, r)
  PROVE  IndInv'
<1> USE DEF Admitted, Authentic, Labels, Codes
<1>1. CASE Unauthorized(c, r)
  BY <1>1, KeepsReceive DEF Unauthorized
<1>2. CASE AskRole(c, r)
  BY <1>2, KeepsReceive DEF AskRole, Public, Protected
<1>3. CASE BadRequest(c, r)
  BY <1>3, KeepsReceive DEF BadRequest
<1>4. CASE Accept(c, r)
  BY <1>4, KeepsReceive DEF Accept, Public, Protected
<1>5. CASE Panic(c, r)
  BY <1>5, KeepsReceive DEF Panic
<1> QED BY <1>1, <1>2, <1>3, <1>4, <1>5 DEF Arrive

(* The role check.                                                         *)
LEMMA KeepsRoleAllowed ==
  ASSUME IndInv, NEW c \in Clients, RoleAllowed(c)
  PROVE  IndInv'
<1>1. CASE Rejected(req[c]) /\ Answer(c, 400)
  BY <1>1, TablesStay, KeepsRefusal DEF RoleAllowed, At
<1>2. CASE pc' = [pc EXCEPT ![c] = "call"] /\ UNCHANGED <<req, code>>
  <2>1. CallTypes /\ TableTypes /\ Sound(c)
    BY InvByClient DEF IndInv, TypeOK
  <2>2. /\ pc[c] = "role" /\ req[c].op = "createProblem" /\ IsAdmin(c)
        /\ UNCHANGED <<shown, tables, sessions, history, budget>>
    BY DEF RoleAllowed, At
  <2>3. CallTypes'
    <3>1. pc' \in [Clients -> Labels]
      BY <1>2, <2>1 DEF CallTypes, Labels
    <3>2. \A d \in Clients : pc'[d] = "idle" <=> req'[d] = None
      BY <1>2, <2>1, <2>2 DEF CallTypes
    <3> QED BY <1>2, <2>1, <2>2, <3>1, <3>2 DEF CallTypes
  <2>4. TypeOK'
    BY <2>1, <2>2, <2>3 DEF TypeOK, TableTypes
  <2>5. pc'[c] = "call"
    BY <1>2, <2>1 DEF CallTypes
  <2>6. Sound(c)'
    BY <1>2, <2>1, <2>2, <2>5
       DEF Sound, TokenSound, Witnessed, IsAdmin, ShownAtTheEnd, KnownExists, Exists,
           SeesOwn, At
  <2>7. Grows /\ \A d \in Clients \ {c} : Passive(d)
    BY <1>2, <2>1, <2>2 DEF CallTypes, Grows, Passive
  <2> QED BY <2>4, <2>6, <2>7, StepOfOne
<1> QED BY <1>1, <1>2 DEF RoleAllowed

(* A refusal, by the role or because its row could not be read.            *)
LEMMA KeepsRoleRefused ==
  ASSUME IndInv, NEW c \in Clients, RoleRefused(c) \/ RoleErr(c)
  PROVE  IndInv'
  BY TablesStay, KeepsRefusal DEF RoleRefused, RoleErr, At, Fault

(* Sign-up and log-in.                                                     *)
LEMMA KeepsSignup ==
  ASSUME IndInv, NEW c \in Clients, Signup(c)
  PROVE  IndInv'
<1>1. /\ pc[c] = "call" /\ req[c].op = "signup" /\ Answer(c, 201)
      /\ UNCHANGED <<shown, sessions, history, budget>>
  BY DEF Signup, At
<1>2. /\ TableTypes' /\ Grows /\ RolesKept
      /\ password'[Key(c)] = Digest[req[c].body]
  BY <1>1, UserInserted DEF Signup
<1>3. CallTypes /\ Sound(c) /\ shown[c] = {} /\ 201 \in Codes
  BY <1>1, InvByClient DEF IndInv, TypeOK, Sound, ShownAtTheEnd, Codes
<1>4. code'[c] = 201 /\ req' = req
  BY <1>1, <1>3 DEF Answer, CallTypes
<1>5. KnownExists(c)'
  BY <1>1, <1>2, <1>3 DEF Sound, KnownExists, Exists, Grows
<1>6. AnswerTrue(c)'
  BY <1>1, <1>2, <1>4 DEF AnswerTrue, Key
<1>7. SeesOwn(c)' /\ FindsItsWrites(c)'
  BY <1>1, <1>3, <1>4 DEF SeesOwn, FindsItsWrites
<1> QED BY <1>1, <1>2, <1>3, <1>5, <1>6, <1>7, KeepsAnswer DEF CallTypes

(* The address is taken.                                                   *)
LEMMA KeepsSignupTaken ==
  ASSUME IndInv, NEW c \in Clients, SignupTaken(c)
  PROVE  IndInv'
<1>1. /\ pc[c] = "call" /\ req[c].op = "signup" /\ Answer(c, 409)
      /\ UNCHANGED <<shown, tables, sessions, history, budget>> /\ password[Key(c)] # None
  BY DEF SignupTaken, At, EmailFree
<1>2. TableTypes' /\ Grows /\ RolesKept
  BY <1>1, TablesStay
<1>3. CallTypes /\ Sound(c) /\ shown[c] = {} /\ 409 \in Codes
  BY <1>1, InvByClient DEF IndInv, TypeOK, Sound, ShownAtTheEnd, Codes
<1>4. code'[c] = 409 /\ req' = req
  BY <1>1, <1>3 DEF Answer, CallTypes
<1>5. KnownExists(c)' /\ AnswerTrue(c)' /\ SeesOwn(c)' /\ FindsItsWrites(c)'
  BY <1>1, <1>3, <1>4
     DEF Sound, KnownExists, Exists, AnswerTrue, Key, SeesOwn, FindsItsWrites
<1> QED BY <1>1, <1>2, <1>3, <1>5, KeepsAnswer DEF CallTypes

(* Another error, the row written or not.                                  *)
LEMMA KeepsSignupErr ==
  ASSUME IndInv, NEW c \in Clients, SignupErr(c)
  PROVE  IndInv'
<1>1. /\ pc[c] = "call" /\ req[c].op = "signup" /\ Answer(c, 500)
      /\ UNCHANGED <<shown, sessions, history>>
      /\ UNCHANGED budget \/ \E e \in EventKinds : Happens(e)
  BY DEF SignupErr, At, Fault
<1>2. TableTypes' /\ Grows /\ RolesKept
  BY <1>1, TablesStay, UserInserted DEF SignupErr
<1> QED BY <1>1, <1>2, KeepsRefusal

(* A log-in succeeds with the account's password only.                     *)
LEMMA KeepsLogin ==
  ASSUME IndInv, NEW c \in Clients, Login(c)
  PROVE  IndInv'
<1>1. /\ pc[c] = "call" /\ req[c].op = "login"
      /\ UNCHANGED <<shown, tables, sessions, history, budget>>
  BY DEF Login, At
<1>2. TableTypes' /\ Grows /\ RolesKept
  BY <1>1, TablesStay
<1>3. CallTypes /\ Sound(c) /\ shown[c] = {} /\ {200, 401} \subseteq Codes
  BY <1>1, InvByClient DEF IndInv, TypeOK, Sound, ShownAtTheEnd, Codes
<1>4. PICK k \in {200, 401} :
        Answer(c, k) /\ (k = 200 => Digest[req[c].body] = password[Key(c)])
  BY DEF Login, VerifyPassword
<1>5. code'[c] = k /\ req' = req
  BY <1>3, <1>4 DEF Answer, CallTypes
<1>6. KnownExists(c)' /\ AnswerTrue(c)' /\ SeesOwn(c)' /\ FindsItsWrites(c)'
  BY <1>1, <1>3, <1>4, <1>5
     DEF Sound, KnownExists, Exists, AnswerTrue, Key, SeesOwn, FindsItsWrites
<1> QED BY <1>1, <1>2, <1>3, <1>4, <1>6, KeepsAnswer DEF CallTypes

(* Problems.                                                               *)
LEMMA KeepsCreateProblem ==
  ASSUME IndInv, NEW c \in Clients, CreateProblem(c)
  PROVE  IndInv'
<1>1. /\ pc[c] = "call" /\ req[c].op = "createProblem" /\ Answer(c, 201)
      /\ Show(c, {Key(c)}) /\ UNCHANGED <<sessions, history, budget>>
  BY DEF CreateProblem, At
<1>2. /\ TableTypes' /\ Grows /\ RolesKept
      /\ problems'[Key(c)] = req[c].body /\ req[c].body # None
  BY <1>1, ProblemInserted DEF CreateProblem
<1>3. CallTypes /\ Sound(c) /\ 201 \in Codes /\ Key(c) \in Names
  BY <1>1, InvByClient, RequestParts DEF IndInv, TypeOK, Codes
<1>4. /\ code'[c] = 201 /\ req' = req /\ shown'[c] = {Key(c)}
      /\ shown' \in [Clients -> SUBSET (Names \cup Nat)]
      /\ \A d \in Clients \ {c} : shown'[d] = shown[d]
  BY <1>1, <1>3 DEF Answer, Show, CallTypes
<1>5. KnownExists(c)'
  BY <1>1, <1>2, <1>3, <1>4 DEF Sound, KnownExists, Exists, Grows
<1>6. AnswerTrue(c)' /\ SeesOwn(c)' /\ FindsItsWrites(c)'
  BY <1>1, <1>2, <1>4 DEF AnswerTrue, Key, SeesOwn, FindsItsWrites
<1> QED BY <1>1, <1>2, <1>3, <1>4, <1>5, <1>6, KeepsAnswer

(* The slug is taken or the statement fails.                               *)
LEMMA KeepsCreateProblemErr ==
  ASSUME IndInv, NEW c \in Clients, CreateProblemErr(c)
  PROVE  IndInv'
<1>1. /\ pc[c] = "call" /\ Answer(c, 500) /\ UNCHANGED <<shown, sessions, history>>
      /\ UNCHANGED budget \/ \E e \in EventKinds : Happens(e)
  BY DEF CreateProblemErr, At, Fault
<1>2. TableTypes' /\ Grows /\ RolesKept
  BY <1>1, TablesStay, ProblemInserted DEF CreateProblemErr
<1> QED BY <1>1, <1>2, KeepsRefusal

(* The list of problems holds all there are.                               *)
LEMMA KeepsListProblems ==
  ASSUME IndInv, NEW c \in Clients, ListProblems(c)
  PROVE  IndInv'
<1>1. /\ pc[c] = "call" /\ req[c].op = "listProblems" /\ Answer(c, 200)
      /\ Show(c, {n \in Names : Exists(n)})
      /\ UNCHANGED <<tables, sessions, history, budget>>
  BY DEF ListProblems, AllProblems, At
<1>2. TableTypes' /\ Grows /\ RolesKept
  BY <1>1, TablesStay
<1>3. CallTypes /\ Sound(c) /\ 200 \in Codes
  BY InvByClient DEF IndInv, TypeOK, Codes
<1>4. /\ code'[c] = 200 /\ req' = req /\ shown'[c] = {n \in Names : Exists(n)}
      /\ shown' \in [Clients -> SUBSET (Names \cup Nat)]
      /\ \A d \in Clients \ {c} : shown'[d] = shown[d]
  BY <1>1, <1>3 DEF Answer, Show, CallTypes
<1>5. KnownExists(c)'
  BY <1>1, <1>3, <1>4 DEF Sound, KnownExists, Exists
<1>6. AnswerTrue(c)' /\ SeesOwn(c)'
  BY <1>1, <1>4 DEF AnswerTrue, SeesOwn
<1>7. FindsItsWrites(c)'
  BY <1>1, <1>3, <1>4 DEF FindsItsWrites, Sound, KnownExists
<1> QED BY <1>1, <1>2, <1>3, <1>4, <1>5, <1>6, <1>7, KeepsAnswer

(* One problem.                                                            *)
LEMMA KeepsGetProblem ==
  ASSUME IndInv, NEW c \in Clients, GetProblem(c)
  PROVE  IndInv'
<1>1. /\ pc[c] = "call" /\ req[c].op = "getProblem"
      /\ UNCHANGED <<tables, sessions, history, budget>>
  BY DEF GetProblem, At
<1>2. TableTypes' /\ Grows /\ RolesKept
  BY <1>1, TablesStay
<1>3. CASE Answer(c, 500) /\ UNCHANGED shown
  BY <1>1, <1>2, <1>3, KeepsRefusal
<1>4. CASE Exists(Key(c)) /\ Answer(c, 200) /\ Show(c, {Key(c)})
  <2>1. CallTypes /\ Sound(c) /\ 200 \in Codes /\ Key(c) \in Names
    BY <1>1, InvByClient, RequestParts DEF IndInv, TypeOK, Codes
  <2>2. /\ code'[c] = 200 /\ req' = req /\ shown'[c] = {Key(c)}
        /\ shown' \in [Clients -> SUBSET (Names \cup Nat)]
        /\ \A d \in Clients \ {c} : shown'[d] = shown[d]
    BY <1>4, <2>1 DEF Answer, Show, CallTypes
  <2>3. KnownExists(c)'
    BY <1>1, <1>4, <2>1, <2>2 DEF Sound, KnownExists, Exists
  <2>4. AnswerTrue(c)' /\ SeesOwn(c)' /\ FindsItsWrites(c)'
    BY <1>1, <2>2 DEF AnswerTrue, SeesOwn, FindsItsWrites
  <2> QED BY <1>1, <1>2, <1>4, <2>1, <2>2, <2>3, <2>4, KeepsAnswer
<1> QED BY <1>3, <1>4 DEF GetProblem

(* Submissions.                                                            *)
LEMMA KeepsSubmit ==
  ASSUME IndInv, NEW c \in Clients, Submit(c)
  PROVE  IndInv'
<1>1. /\ pc[c] = "call" /\ req[c].op = "submit" /\ Answer(c, 202)
      /\ Show(c, {Len(subs) + 1}) /\ UNCHANGED <<sessions, history, budget>>
  BY DEF Submit, At
<1>2. /\ TableTypes' /\ Grows /\ RolesKept
      /\ Len(subs) + 1 \in DOMAIN subs' /\ Len(subs) + 1 \in Nat
  BY <1>1, SubmissionInserted DEF Submit
<1>3. CallTypes /\ Sound(c) /\ 202 \in Codes
  BY InvByClient DEF IndInv, TypeOK, Codes
<1>4. /\ code'[c] = 202 /\ req' = req /\ shown'[c] = {Len(subs) + 1}
      /\ shown' \in [Clients -> SUBSET (Names \cup Nat)]
      /\ \A d \in Clients \ {c} : shown'[d] = shown[d]
  BY <1>1, <1>2, <1>3 DEF Answer, Show, CallTypes
<1>5. KnownExists(c)'
  BY <1>1, <1>2, <1>3, <1>4 DEF Sound, KnownExists, Exists, Grows
<1>6. AnswerTrue(c)' /\ SeesOwn(c)' /\ FindsItsWrites(c)'
  BY <1>1, <1>4 DEF AnswerTrue, SeesOwn, FindsItsWrites
<1> QED BY <1>1, <1>2, <1>3, <1>4, <1>5, <1>6, KeepsAnswer

(* The foreign key or the statement fails.                                 *)
LEMMA KeepsSubmitErr ==
  ASSUME IndInv, NEW c \in Clients, SubmitErr(c)
  PROVE  IndInv'
<1>1. /\ pc[c] = "call" /\ req[c].op = "submit" /\ Answer(c, 500)
      /\ UNCHANGED <<shown, sessions, history>>
      /\ UNCHANGED budget \/ \E e \in EventKinds : Happens(e)
  BY DEF SubmitErr, At, Fault
<1>2. TableTypes' /\ Grows /\ RolesKept
  BY <1>1, TablesStay, SubmissionInserted DEF SubmitErr
<1> QED BY <1>1, <1>2, KeepsRefusal

(* One submission, or the start of its stream.                             *)
LEMMA KeepsReadOne ==
  ASSUME IndInv, NEW c \in Clients, ReadOne(c)
  PROVE  IndInv'
<1> DEFINE i == req[c].id
<1>1. /\ pc[c] = "call" /\ req[c].op \in {"getSubmission", "events"}
      /\ UNCHANGED <<tables, sessions, history, budget>>
  BY DEF ReadOne
<1>2. TableTypes' /\ Grows /\ RolesKept
  BY <1>1, TablesStay
<1>3. CallTypes /\ TableTypes /\ Sound(c) /\ i \in Nat /\ {200, 403, 404} \subseteq Codes
  BY <1>1, InvByClient, RequestParts DEF IndInv, TypeOK, Codes
<1> HIDE DEF i
<1>4. CASE i \notin DOMAIN subs /\ Answer(c, 404) /\ UNCHANGED shown
  <2>1. code'[c] = 404 /\ req' = req /\ shown[c] = {}
    BY <1>1, <1>3, <1>4 DEF Answer, CallTypes, Sound, ShownAtTheEnd
  <2>2. KnownExists(c)' /\ AnswerTrue(c)' /\ SeesOwn(c)'
    BY <1>1, <1>3, <1>4, <2>1
       DEF Sound, KnownExists, Exists, AnswerTrue, SeesOwn
  <2>3. FindsItsWrites(c)'
    BY <1>1, <1>3, <1>4, <2>1 DEF Sound, KnownExists, FindsItsWrites, i
  <2> QED BY <1>1, <1>2, <1>3, <1>4, <2>2, <2>3, KeepsAnswer DEF CallTypes
<1>5. CASE i \in DOMAIN subs /\ ~Own(c, i) /\ Answer(c, 403) /\ UNCHANGED shown
  BY <1>1, <1>2, <1>5, KeepsRefusal
<1>6. CASE /\ i \in DOMAIN subs /\ Own(c, i) /\ Show(c, {i})
           /\ \/ req[c].op # "events" /\ Answer(c, 200)
              \/ req[c].op = "events" /\ pc' = [pc EXCEPT ![c] = "stream"]
                 /\ UNCHANGED <<req, code>>
  <2>1. /\ req' = req /\ shown'[c] = {i}
        /\ shown' \in [Clients -> SUBSET (Names \cup Nat)]
        /\ \A d \in Clients \ {c} : shown'[d] = shown[d]
    BY <1>3, <1>6 DEF Answer, Show, CallTypes
  <2>2. KnownExists(c)' /\ SeesOwn(c)'
    BY <1>1, <1>3, <1>6, <2>1 DEF Sound, KnownExists, Exists, SeesOwn, Own
  <2>3. CASE Answer(c, 200) /\ req[c].op # "events"
    <3>1. code'[c] = 200
      BY <1>3, <2>3 DEF Answer, CallTypes
    <3>2. AnswerTrue(c)' /\ FindsItsWrites(c)'
      BY <1>1, <2>1, <3>1 DEF AnswerTrue, FindsItsWrites
    <3> QED BY <1>1, <1>2, <1>3, <2>1, <2>2, <2>3, <3>2, KeepsAnswer
  <2>4. CASE pc' = [pc EXCEPT ![c] = "stream"] /\ UNCHANGED <<req, code>> /\ req[c].op = "events"
    <3>1. CallTypes'
      <4>1. pc' \in [Clients -> Labels]
        BY <1>3, <2>4 DEF CallTypes, Labels
      <4>2. \A d \in Clients : pc'[d] = "idle" <=> req'[d] = None
        BY <1>1, <1>3, <2>4 DEF CallTypes
      <4> QED BY <1>1, <1>3, <2>1, <2>4, <4>1, <4>2 DEF CallTypes
    <3>2. pc'[c] = "stream"
      BY <1>3, <2>4 DEF CallTypes
    <3>3. Sound(c)'
      BY <1>1, <1>3, <2>1, <2>2, <2>4, <3>2
         DEF Sound, TokenSound, Witnessed, IsAdmin, ShownAtTheEnd, At
    <3>4. \A d \in Clients \ {c} : Passive(d)
      BY <1>1, <1>3, <2>1, <2>4 DEF CallTypes, Passive
    <3> QED BY <1>2, <3>1, <3>3, <3>4, StepOfOne DEF TypeOK
  <2> QED BY <1>6, <2>3, <2>4
<1> QED BY <1>4, <1>5, <1>6 DEF ReadOne, i

(* The list of a user's own submissions.                                   *)
LEMMA KeepsListSubmissions ==
  ASSUME IndInv, NEW c \in Clients, ListSubmissions(c)
  PROVE  IndInv'
<1>1. /\ pc[c] = "call" /\ req[c].op = "listSubmissions" /\ Answer(c, 200)
      /\ Show(c, Listed(c)) /\ UNCHANGED <<tables, sessions, history, budget>>
  BY DEF ListSubmissions, At
<1>2. TableTypes' /\ Grows /\ RolesKept
  BY <1>1, TablesStay
<1>3. CallTypes /\ TableTypes /\ Sound(c) /\ 200 \in Codes
  BY InvByClient DEF IndInv, TypeOK, Codes
<1>4. DOMAIN subs \subseteq Nat
  BY <1>3 DEF TableTypes
<1>5. /\ code'[c] = 200 /\ req' = req /\ shown'[c] = Listed(c)
      /\ \A d \in Clients \ {c} : shown'[d] = shown[d]
  BY <1>1, <1>3 DEF Answer, Show, CallTypes
<1>6. shown' \in [Clients -> SUBSET (Names \cup Nat)]
  BY <1>1, <1>3, <1>4 DEF Show, CallTypes, Listed, OfUser
<1>7. KnownExists(c)'
  BY <1>1, <1>3, <1>4, <1>5 DEF Sound, KnownExists, Exists, Listed, OfUser
<1>8. AnswerTrue(c)' /\ SeesOwn(c)'
  BY <1>1, <1>5 DEF AnswerTrue, SeesOwn, Own, Listed, OfUser
<1>9. FindsItsWrites(c)'
  BY <1>1, <1>3, <1>5 DEF FindsItsWrites, Sound, KnownExists, Listed, OfUser, Own
<1> QED BY <1>1, <1>2, <1>3, <1>5, <1>6, <1>7, <1>8, <1>9, KeepsAnswer

(* A SELECT fails.                                                         *)
LEMMA KeepsReadErr ==
  ASSUME IndInv, NEW c \in Clients, ReadErr(c)
  PROVE  IndInv'
  BY TablesStay, KeepsRefusal DEF ReadErr, Fault

(* A request is over: the client may have a token or know more than before. *)
LEMMA KeepsOver ==
  ASSUME IndInv, NEW c \in Clients, pc[c] # "idle", Over(c), UNCHANGED tables,
         UNCHANGED budget,
         token' \in [Clients -> Names \cup {None}], expired' \subseteq Clients,
         token'[c] # None => password[token'[c]] # None,
         acked' \in [Clients -> SUBSET (Names \cup Nat)],
         acked'[c] \subseteq acked[c] \cup shown[c],
         \A d \in Clients \ {c} : token'[d] = token[d] /\ acked'[d] = acked[d]
  PROVE  IndInv'
<1>1. CallTypes /\ TableTypes /\ Sound(c)
  BY InvByClient DEF IndInv, TypeOK
<1>2. /\ pc' = [pc EXCEPT ![c] = "idle"] /\ req' = [req EXCEPT ![c] = None]
      /\ code' = [code EXCEPT ![c] = 0] /\ shown' = [shown EXCEPT ![c] = {}]
      /\ wasAdmin' = wasAdmin \ {c}
  BY DEF Over, Show
<1>3. CallTypes'
  <2>1. /\ pc' \in [Clients -> Labels] /\ req' \in [Clients -> AllRequests \cup {None}]
        /\ code' \in [Clients -> Codes] /\ shown' \in [Clients -> SUBSET (Names \cup Nat)]
    BY <1>1, <1>2 DEF CallTypes, Labels, Codes
  <2>2. \A d \in Clients : pc'[d] = "idle" <=> req'[d] = None
    BY <1>1, <1>2 DEF CallTypes
  <2> QED BY <1>1, <1>2, <2>1, <2>2 DEF CallTypes
<1>4. TypeOK'
  BY <1>1, <1>3 DEF TypeOK, TableTypes
<1>5. pc'[c] = "idle" /\ shown'[c] = {} /\ c \notin wasAdmin'
  BY <1>1, <1>2 DEF CallTypes
<1>6. Sound(c)'
  BY <1>1, <1>5
     DEF Sound, TokenSound, Witnessed, ShownAtTheEnd, KnownExists, Exists, SeesOwn, At
<1>7. Grows /\ \A d \in Clients \ {c} : Passive(d)
  BY <1>1, <1>2 DEF CallTypes, Grows, Passive
<1> QED BY <1>4, <1>6, <1>7, StepOfOne

(* The client reads the answer.                                            *)
LEMMA KeepsReply ==
  ASSUME IndInv, NEW c \in Clients, Reply(c)
  PROVE  IndInv'
<1>1. CallTypes /\ Sound(c) /\ Key(c) \in Names /\ req[c].body \in Bodies
  BY InvByClient, RequestParts DEF IndInv, TypeOK, Reply
<1>2. acked' \in [Clients -> SUBSET (Names \cup Nat)]
  BY <1>1 DEF Reply, CallTypes
<1>3. /\ acked'[c] \subseteq acked[c] \cup shown[c]
      /\ \A d \in Clients \ {c} : acked'[d] = acked[d]
  BY <1>1 DEF Reply, CallTypes
<1>4. /\ token' \in [Clients -> Names \cup {None}] /\ expired' \subseteq Clients
      /\ token'[c] # None => password[token'[c]] # None
      /\ \A d \in Clients \ {c} : token'[d] = token[d]
  <2>1. CASE req[c].op = "login" /\ code[c] = 200
    <3>1. password[Key(c)] = Digest[req[c].body] /\ Digest[req[c].body] # None
      BY <1>1, <2>1 DEF Reply, Sound, AnswerTrue, Digests
    <3> QED BY <1>1, <2>1, <3>1 DEF Reply, CallTypes
  <2>2. CASE ~(req[c].op = "login" /\ code[c] = 200)
    BY <1>1, <2>2 DEF Reply, CallTypes, Sound, TokenSound
  <2> QED BY <2>1, <2>2
<1> QED BY <1>2, <1>3, <1>4, KeepsOver DEF Reply

(* A stream ends or a connection breaks.                                   *)
LEMMA KeepsCut ==
  ASSUME IndInv, NEW c \in Clients, Cut(c) \/ StreamEnds(c)
  PROVE  IndInv'
<1>1. CallTypes /\ Sound(c)
  BY InvByClient DEF IndInv, TypeOK
<1> QED BY <1>1, KeepsOver DEF Cut, StreamEnds, CallTypes, Sound, TokenSound

(* A token grows too old.                                                  *)
LEMMA KeepsTokenExpires ==
  ASSUME IndInv, NEW c \in Clients, TokenExpires(c)
  PROVE  IndInv'
<1>1. /\ UNCHANGED <<token, tables, calls, history>> /\ expired' \subseteq Clients
      /\ budget' \in [EventKinds -> Nat]
  BY BudgetLeft DEF TokenExpires, IndInv, TypeOK, CallTypes
<1>2. TypeOK'
  BY <1>1 DEF IndInv, TypeOK, TableTypes, CallTypes
<1>3. Grows /\ \A d \in Clients : Passive(d)
  BY <1>1 DEF Grows, Passive
<1> QED BY <1>2, <1>3, InvByClient, PassiveStaysSound, StepOfOne

(* An operator changes a role: whoever has a request under way as an admin *)
(* is noted.                                                               *)
LEMMA KeepsSetRole ==
  ASSUME IndInv, NEW n \in Names, NEW r \in Roles, SetRole(n, r)
  PROVE  IndInv'
<1>1. TableTypes /\ CallTypes
  BY DEF IndInv, TypeOK
<1>2. /\ role' = [role EXCEPT ![n] = r]
      /\ UNCHANGED <<password, problems, subs, token, expired, pc, req, code, shown, acked>>
      /\ wasAdmin' = wasAdmin \cup
           {c \in Clients : r = "admin" /\ token[c] = n /\ pc[c] # "idle"}
  BY DEF SetRole
<1>3. budget' \in [EventKinds -> Nat]
  BY BudgetLeft DEF SetRole, IndInv
<1>4. TypeOK'
  BY <1>1, <1>2, <1>3 DEF TypeOK, TableTypes, CallTypes
<1>5. Grows /\ \A d \in Clients : Passive(d)
  BY <1>1, <1>2 DEF TableTypes, CallTypes, Grows, Passive
<1>6. \A d \in Clients : Sound(d)'
  BY <1>5, InvByClient, PassiveStaysSound
<1>7. IndInv' <=> TypeOK' /\ \A d \in Clients : Sound(d)'
  BY DEF IndInv, Bookkeeping, Promises, AnswersTrue, AdminWhenCreating, OwnRowsOnly,
         ReadYourWrites, Sound
<1> QED BY <1>4, <1>6, <1>7

-----------------------------------------------------------------------------
(* The invariant holds at the start, and every step keeps it.              *)
LEMMA InitInv == Init => IndInv
<1> SUFFICES ASSUME Init PROVE IndInv
  OBVIOUS
<1>1. TypeOK
  <2>1. subs \in Seq([user : Names, problem : Names])
    BY DEF Init
  <2>2. \A c \in Clients : pc[c] = "idle" <=> req[c] = None
    BY DEF Init
  <2> QED BY <2>1, <2>2 DEF Init, TypeOK, TableTypes, CallTypes, Labels, Codes
<1>2. ASSUME NEW c \in Clients PROVE Sound(c)
  BY DEF Init, Sound, TokenSound, Witnessed, ShownAtTheEnd, KnownExists, SeesOwn, At
<1> QED BY <1>1, <1>2, InvByClient

(* A step of a handler.                                                    *)
LEMMA WorkInv == ASSUME IndInv, NEW c \in Clients, Work(c) PROVE IndInv'
  BY KeepsRoleAllowed, KeepsRoleRefused, KeepsSignup, KeepsSignupTaken, KeepsSignupErr,
     KeepsLogin, KeepsCreateProblem, KeepsCreateProblemErr, KeepsListProblems,
     KeepsGetProblem, KeepsSubmit, KeepsSubmitErr, KeepsReadOne, KeepsListSubmissions,
     KeepsReadErr, KeepsReply
     DEF Work

(* A step that is not the code's.                                          *)
LEMMA OutsideInv == ASSUME IndInv, Outside PROVE IndInv'
  BY KeepsCut, KeepsTokenExpires, KeepsSetRole DEF Outside

(* A step that changes nothing.                                            *)
LEMMA StutterInv == ASSUME IndInv, UNCHANGED vars PROVE IndInv'
<1>1. TypeOK'
  BY DEF IndInv, TypeOK, TableTypes, CallTypes, vars
<1>2. Grows /\ \A d \in Clients : Passive(d)
  BY DEF vars, Grows, Passive
<1>3. \A d \in Clients : Sound(d)'
  BY <1>2, InvByClient, PassiveStaysSound
<1>4. IndInv' <=> TypeOK' /\ \A d \in Clients : Sound(d)'
  BY DEF IndInv, Bookkeeping, Promises, AnswersTrue, AdminWhenCreating, OwnRowsOnly,
         ReadYourWrites, Sound
<1> QED BY <1>1, <1>3, <1>4

(* Every step.                                                             *)
LEMMA NextInv == IndInv /\ [Next]_vars => IndInv'
<1> SUFFICES ASSUME IndInv, [Next]_vars PROVE IndInv'
  OBVIOUS
<1>1. ASSUME NEW c \in Clients, NEW r \in Requests[c], Arrive(c, r) PROVE IndInv'
  <2>1. r \in AllRequests
    OBVIOUS
  <2> QED BY <1>1, <2>1, KeepsArrive
<1> QED BY <1>1, WorkInv, OutsideInv, StutterInv DEF Next

(* The invariant of the requests.                                          *)
THEOREM Invariance == Spec => []IndInv
  BY InitInv, NextInv, PTL DEF Spec

(* The state keeps its shape.                                              *)
THEOREM TypesAreOK == Spec => []TypeOK
  BY Invariance, PTL DEF IndInv

(* No request in between makes an answer untrue.                           *)
THEOREM AnswersStayTrue == Spec => []AnswersTrue
<1>1. IndInv => AnswersTrue
  BY DEF IndInv, Promises
<1> QED BY <1>1, Invariance, PTL

(* Problems are created on behalf of admins only, whatever role a token    *)
(* was issued for.                                                         *)
THEOREM OnlyAdminsCreate == Spec => []AdminWhenCreating
<1>1. IndInv => AdminWhenCreating
  BY DEF IndInv, Promises
<1> QED BY <1>1, Invariance, PTL

-----------------------------------------------------------------------------
(* Only an INSERT of a free key touches the accounts or the problems.      *)
LEMMA UsersStep ==
  ASSUME IndInv, NEW c \in Clients, Work(c)
  PROVE  Users!Next \/ UNCHANGED password
<1>1. ASSUME pc[c] = "call", req[c].op = "signup", EmailFree(c), InsertUser(c)
      PROVE  Users!Next
  <2>1. Key(c) \in Names /\ req[c].body \in Bodies
    BY <1>1, RequestParts DEF IndInv
  <2>2. Users!Insert(Key(c), Digest[req[c].body]) /\ Digest[req[c].body] \in Digests
    BY <1>1, <2>1 DEF EmailFree, InsertUser, Users!Insert, Digests
  <2> QED BY <2>1, <2>2 DEF Users!Next
<1>2. CASE Signup(c) \/ SignupErr(c)
  BY <1>1, <1>2 DEF Signup, SignupErr, At
<1>3. CASE CreateProblem(c) \/ CreateProblemErr(c) \/ Submit(c) \/ SubmitErr(c)
  BY <1>3
     DEF CreateProblem, CreateProblemErr, InsertProblem, Submit, SubmitErr, InsertSubmission
<1>4. CASE ~(Signup(c) \/ SignupErr(c) \/ CreateProblem(c) \/ CreateProblemErr(c)
             \/ Submit(c) \/ SubmitErr(c))
  BY <1>4
     DEF Work, RoleAllowed, RoleRefused, RoleErr, SignupTaken, Login, ListProblems,
         GetProblem, ReadOne, ListSubmissions, ReadErr, Reply
<1> QED BY <1>2, <1>3, <1>4

(* The same of the problems.                                               *)
LEMMA SlugsStep ==
  ASSUME IndInv, NEW c \in Clients, Work(c)
  PROVE  Slugs!Next \/ UNCHANGED problems
<1>1. ASSUME pc[c] = "call", SlugFree(c), InsertProblem(c)
      PROVE  Slugs!Next
  <2>1. Key(c) \in Names /\ req[c].body \in Bodies
    BY <1>1, RequestParts DEF IndInv
  <2>2. Slugs!Insert(Key(c), req[c].body)
    BY <1>1 DEF SlugFree, InsertProblem, Slugs!Insert
  <2> QED BY <2>1, <2>2 DEF Slugs!Next
<1>2. CASE CreateProblem(c) \/ CreateProblemErr(c)
  BY <1>1, <1>2 DEF CreateProblem, CreateProblemErr, At
<1>3. CASE Signup(c) \/ SignupErr(c) \/ Submit(c) \/ SubmitErr(c)
  BY <1>3 DEF Signup, SignupErr, InsertUser, Submit, SubmitErr, InsertSubmission
<1>4. CASE ~(Signup(c) \/ SignupErr(c) \/ CreateProblem(c) \/ CreateProblemErr(c)
             \/ Submit(c) \/ SubmitErr(c))
  BY <1>4
     DEF Work, RoleAllowed, RoleRefused, RoleErr, SignupTaken, Login, ListProblems,
         GetProblem, ReadOne, ListSubmissions, ReadErr, Reply
<1> QED BY <1>2, <1>3, <1>4

(* What comes from outside leaves both alone.                              *)
LEMMA OutsideKeepsKeys == ASSUME Outside PROVE UNCHANGED <<password, problems>>
  BY DEF Outside, Cut, StreamEnds, TokenExpires, SetRole

(* So does what arrives.                                                   *)
LEMMA ArriveKeepsKeys ==
  ASSUME NEW c \in Clients, NEW r, Arrive(c, r)
  PROVE  UNCHANGED <<password, problems>>
  BY DEF Arrive, Unauthorized, AskRole, BadRequest, Accept, Panic, Receive

(* An address is taken once, and its password never overwritten: the users *)
(* implement UniqueTable.                                                  *)
THEOREM AccountsAreUnique == Spec => AccountsTakenOnce
<1>1. Init => Users!Init
  BY DEF Init, Users!Init
<1>2. IndInv /\ [Next]_vars => [Users!Next]_password
  BY UsersStep, OutsideKeepsKeys, ArriveKeepsKeys DEF Next, vars
<1> QED BY <1>1, <1>2, Invariance, PTL DEF Spec, AccountsTakenOnce, Users!Spec

(* And so do the problems.                                                 *)
THEOREM SlugsAreUnique == Spec => SlugsTakenOnce
<1>1. Init => Slugs!Init
  BY DEF Init, Slugs!Init
<1>2. IndInv /\ [Next]_vars => [Slugs!Next]_problems
  BY SlugsStep, OutsideKeepsKeys, ArriveKeepsKeys DEF Next, vars
<1> QED BY <1>1, <1>2, Invariance, PTL DEF Spec, SlugsTakenOnce, Slugs!Spec

-----------------------------------------------------------------------------
(* The process around the requests.                                        *)
LEMMA KeepsGone ==
  ASSUME IndInv, Gone, UNCHANGED budget \/ Happens("crash")
  PROVE  IndInv'
<1>1. TableTypes /\ CallTypes /\ \A d \in Clients : Sound(d)
  BY InvByClient DEF IndInv, TypeOK
<1>2. budget' \in [EventKinds -> Nat]
  BY BudgetLeft DEF IndInv
<1>3. CallTypes'
  <2>1. \A d \in Clients : pc'[d] = "idle" <=> req'[d] = None
    BY DEF Gone
  <2> QED BY <1>1, <1>2, <2>1 DEF Gone, CallTypes, Labels, Codes
<1>4. TypeOK'
  BY <1>1, <1>3 DEF Gone, TypeOK, TableTypes
<1>5. \A d \in Clients : Sound(d)'
  BY <1>1
     DEF Gone, Sound, TokenSound, Witnessed, ShownAtTheEnd, KnownExists, Exists, SeesOwn, At
<1>6. IndInv' <=> TypeOK' /\ \A d \in Clients : Sound(d)'
  BY DEF IndInv, Bookkeeping, Promises, AnswersTrue, AdminWhenCreating, OwnRowsOnly,
         ReadYourWrites, Sound
<1> QED BY <1>4, <1>5, <1>6

(* A handler that finds the pool closed.                                   *)
LEMMA KeepsPoolClosed ==
  ASSUME IndInv, NEW c \in Clients, PoolClosed(c)
  PROVE  IndInv'
<1>1. PICK k \in {401, 500} : Answer(c, k)
  BY DEF PoolClosed
<1> QED BY <1>1, TablesStay, KeepsRefusal DEF PoolClosed, NeedsPool

(* Every step of the process keeps what is said of the requests.           *)
LEMMA ServerRequests ==
  ASSUME IndInv, [ServerNext]_allVars
  PROVE  IndInv'
<1>1. CASE UNCHANGED vars
  BY <1>1, StutterInv
<1>2. CASE StartStep \/ StartErr \/ ListenErr \/ Signal \/ ShutdownDone \/ ShutdownTimeout
  BY <1>2, StutterInv
     DEF StartStep, StartErr, ListenErr, Signal, ShutdownDone, ShutdownTimeout
<1>3. CASE Exit \/ Crash
  BY <1>3, KeepsGone DEF Exit, Crash
<1>4. ASSUME NEW c \in Clients, Serve(c) PROVE IndInv'
  <2>1. PICK r \in Requests[c] : Arrive(c, r)
    BY <1>4 DEF Serve
  <2>2. r \in AllRequests
    OBVIOUS
  <2> QED BY <2>1, <2>2, KeepsArrive
<1>5. ASSUME NEW c \in Clients, Handle(c) \/ PoolClosed(c) PROVE IndInv'
  BY <1>5, WorkInv, KeepsPoolClosed DEF Handle
<1>6. CASE Outside
  BY <1>6, OutsideInv
<1> QED BY <1>1, <1>2, <1>3, <1>4, <1>5, <1>6 DEF ServerNext, allVars

(* A handler is at work wherever Work is.                                  *)
LEMMA WorkIsBusy == ASSUME NEW c \in Clients, Work(c) PROVE pc[c] # "idle"
  BY DEF Work, RoleAllowed, RoleRefused, RoleErr, Signup, SignupTaken, SignupErr, Login,
         CreateProblem, CreateProblemErr, ListProblems, GetProblem, Submit, SubmitErr,
         ReadOne, ListSubmissions, ReadErr, Reply, At

(* Handlers only run while there is something to run on.                   *)
LEMMA ServerStep ==
  ASSUME ServerIndInv, [ServerNext]_allVars
  PROVE  ServerTypeOK' /\ ClosedUnderNobody'
<1> USE DEF ServerIndInv, ServerTypeOK, MainSteps, Starting, ClosedUnderNobody
<1>1. CASE StartStep
  <2>1. main \in {"off", "pool", "redis", "queue"}
    BY <1>1 DEF StartStep, AfterStart
  <2>2. main' \in {"pool", "redis", "queue", "serving"} /\ forced' = FALSE
    BY <1>1, <2>1 DEF StartStep, AfterStart
  <2>3. Drained /\ pc' = pc
    BY <1>1, <2>1 DEF StartStep, vars, calls
  <2> QED BY <2>2, <2>3 DEF Drained
<1>2. CASE StartErr \/ Signal
  BY <1>2 DEF StartErr, Signal, Drained, vars, calls
<1>3. CASE ListenErr \/ ShutdownDone \/ ShutdownTimeout
  BY <1>3 DEF ListenErr, ShutdownDone, ShutdownTimeout, Drained, vars, calls
<1>4. CASE Exit \/ Crash
  BY <1>4 DEF Exit, Crash, Gone, Drained
<1>5. ASSUME NEW c \in Clients, Serve(c)
      PROVE  ServerTypeOK' /\ ClosedUnderNobody'
  BY <1>5 DEF Serve, serverVars
<1>6. ASSUME NEW c \in Clients, Handle(c) \/ PoolClosed(c)
      PROVE  ServerTypeOK' /\ ClosedUnderNobody'
  <2>1. pc[c] # "idle" /\ UNCHANGED serverVars
    BY <1>6, WorkIsBusy DEF Handle, PoolClosed, NeedsPool
  <2> QED BY <2>1 DEF Drained, serverVars
<1>7. CASE Outside /\ UNCHANGED serverVars
  <2>1. Drained => Drained'
    BY <1>7 DEF Outside, Cut, StreamEnds, TokenExpires, SetRole, calls, Drained
  <2> QED BY <1>7, <2>1 DEF serverVars
<1>8. CASE UNCHANGED allVars
  BY <1>8 DEF allVars, vars, calls, serverVars, Drained
<1> QED BY <1>1, <1>2, <1>3, <1>4, <1>5, <1>6, <1>7, <1>8 DEF ServerNext

(* The invariant of the process.                                           *)
THEOREM ServerInvariance == ServerSpec => []ServerIndInv
<1>1. ServerInit => ServerIndInv
  BY InitInv
     DEF ServerInit, ServerIndInv, ServerTypeOK, MainSteps, ClosedUnderNobody, Drained, Init
<1>2. ServerIndInv /\ [ServerNext]_allVars => ServerIndInv'
  BY ServerRequests, ServerStep DEF ServerIndInv
<1> QED BY <1>1, <1>2, PTL DEF ServerSpec

(* Unless it was forced to, the process closes its clients under nobody.   *)
THEOREM CleanStops == ServerSpec => []ClosedUnderNobody
  BY ServerInvariance, PTL DEF ServerIndInv

(* Crashes, restarts and shutdowns included, nobody is shown a submission  *)
(* of somebody else.                                                       *)
THEOREM NobodySeesMore == ServerSpec => []OwnRowsOnly
<1>1. ServerIndInv => OwnRowsOnly
  BY DEF ServerIndInv, IndInv, Promises
<1> QED BY <1>1, ServerInvariance, PTL

(* And what a client was told is created stays there for it to find.       *)
THEOREM WritesAreFound == ServerSpec => []ReadYourWrites
<1>1. ServerIndInv => ReadYourWrites
  BY DEF ServerIndInv, IndInv, Promises
<1> QED BY <1>1, ServerInvariance, PTL
(* The same answers stay true in the whole process: what a client was told *)
(* holds after any crash, restart or shutdown, and no role is assumed that *)
(* an admin did not have.                                                  *)
THEOREM ServerAnswersStayTrue == ServerSpec => [](AnswersTrue /\ AdminWhenCreating)
<1>1. ServerIndInv => AnswersTrue /\ AdminWhenCreating
  BY DEF ServerIndInv, IndInv, Promises
<1> QED BY <1>1, ServerInvariance, PTL

(* What the process does to the accounts and the problems: at most what    *)
(* one handler does.                                                       *)
LEMMA ServerKeys ==
  ASSUME ServerIndInv, [ServerNext]_allVars
  PROVE  [Users!Next]_password /\ [Slugs!Next]_problems
<1>0. IndInv
  BY DEF ServerIndInv
<1>1. ASSUME NEW c \in Clients, Handle(c) PROVE [Users!Next]_password /\ [Slugs!Next]_problems
  BY <1>0, <1>1, UsersStep, SlugsStep DEF Handle
<1>2. ASSUME NEW c \in Clients, Serve(c) \/ PoolClosed(c) PROVE UNCHANGED <<password, problems>>
  BY <1>2, ArriveKeepsKeys DEF Serve, PoolClosed, tables
<1>3. CASE StartStep \/ StartErr \/ ListenErr \/ Signal \/ ShutdownDone \/ ShutdownTimeout
  BY <1>3
     DEF StartStep, StartErr, ListenErr, Signal, ShutdownDone, ShutdownTimeout, vars, tables
<1>4. CASE Exit \/ Crash
  BY <1>4 DEF Exit, Crash, Gone, tables
<1>5. CASE Outside
  BY <1>5, OutsideKeepsKeys
<1>6. CASE UNCHANGED allVars
  BY <1>6 DEF allVars, vars, tables
<1> QED BY <1>1, <1>2, <1>3, <1>4, <1>5, <1>6 DEF ServerNext

(* Stopped, crashed or started again in the middle of a sign-up, the       *)
(* process still implements UniqueTable for the accounts,                  *)
THEOREM ServerKeepsAccounts == ServerSpec => AccountsTakenOnce
<1>1. ServerInit => Users!Init
  BY DEF ServerInit, Init, Users!Init
<1> QED BY <1>1, ServerKeys, ServerInvariance, PTL DEF ServerSpec, AccountsTakenOnce, Users!Spec

(* and for the problems.                                                   *)
THEOREM ServerKeepsSlugs == ServerSpec => SlugsTakenOnce
<1>1. ServerInit => Slugs!Init
  BY DEF ServerInit, Init, Slugs!Init
<1> QED BY <1>1, ServerKeys, ServerInvariance, PTL DEF ServerSpec, SlugsTakenOnce, Slugs!Spec
=============================================================================
