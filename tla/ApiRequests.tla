------------------------------- MODULE ApiRequests -------------------------------
(***************************************************************************)
(* The requests of the API and the rows they leave: sign-up and log-in,    *)
(* problems, and a user's own submissions.  A request passes the token     *)
(* check, for POST /problems the role check, the validation of its         *)
(* handler, and one statement of a repository; other requests come in      *)
(* between.  What happens to a submission after its INSERT is the subject  *)
(* of SubmissionPipeline, what an event stream sends that of LiveEvents.   *)
(***************************************************************************)
EXTENDS Naturals, Sequences

CONSTANTS
  Clients,    \* who sends requests, one at a time each
  Names,      \* e-mail addresses and slugs, as typed
  Canonical,  \* the same in lower case and without blanks around them
  Blank,      \* the empty name
  Bodies,     \* passwords, problem texts, sources, queries
  Bad,        \* those that validation refuses
  Digest,     \* what HashPassword makes of a password
  None,       \* SQL NULL, no row, no token, no request
  Requests,   \* the requests each client may send
  MaxSubs,    \* bound: submissions
  Budget      \* bound: how often each kind of event outside the code occurs

(* db: a statement fails or its reply is lost; role: an operator changes a *)
(* role; expiry: a token grows older than a day; crash: the process dies.  *)
EventKinds == {"db", "role", "expiry", "crash"}

Roles == {"user", "admin"}

Public    == {"signup", "login", "panic"}
Protected == {"createProblem", "listProblems", "getProblem",
              "submit", "getSubmission", "listSubmissions", "events"}

(* role: what the body says, in lower case; id: the {id} of the path.      *)
AllRequests ==
  [op : Public \cup Protected, name : Names, body : Bodies,
   role : Roles \cup {"", "root"}, id : Nat]

Digests == {Digest[b] : b \in Bodies}

ASSUME RequestsAssumption ==
  /\ Canonical \in [Names -> Names]
  /\ \A n \in Names : Canonical[Canonical[n]] = Canonical[n]
  /\ Blank \in Names /\ Bad \subseteq Bodies
  /\ \A n \in Names : n \notin Nat  \* no slug is an id
  /\ DOMAIN Digest = Bodies
  /\ \A a, b \in Bodies : Digest[a] = Digest[b] => a = b
  /\ None \notin Names \cup Bodies \cup Digests \cup Roles
  /\ None \notin AllRequests
  /\ Requests \in [Clients -> SUBSET AllRequests]
  /\ MaxSubs \in Nat /\ Budget \in [EventKinds -> Nat]

VARIABLES
  password, role,   \* columns of users, by e-mail; NULL: no such row
  problems,         \* what was posted, by slug
  subs,             \* submissions, by id: their user and problem
  token, expired,   \* the user a client's token names; clients whose 24 h are over
  pc, req,          \* where a client's request is, and the request
  code, shown,      \* its answer: the status, and the ids or slugs in it
  wasAdmin,         \* history: clients whose user was admin since their request came
  acked,            \* history: ids and slugs a client was told are created
  budget            \* events left

tables   == <<password, role, problems, subs>>
sessions == <<token, expired>>
calls    == <<pc, req, code, shown>>
history  == <<wasAdmin, acked>>
vars == <<tables, sessions, calls, history, budget>>

Labels == {"idle", "role", "call", "stream", "reply"}
Codes  == {0, 200, 201, 202, 400, 401, 403, 404, 409, 500}

Init ==
  /\ password = [n \in Names |-> None] /\ role = [n \in Names |-> None]
  /\ problems = [n \in Names |-> None] /\ subs = <<>>
  /\ token = [c \in Clients |-> None] /\ expired = {}
  /\ pc = [c \in Clients |-> "idle"] /\ req = [c \in Clients |-> None]
  /\ code = [c \in Clients |-> 0] /\ shown = [c \in Clients |-> {}]
  /\ wasAdmin = {} /\ acked = [c \in Clients |-> {}]
  /\ budget = Budget

Happens(k) == budget[k] > 0 /\ budget' = [budget EXCEPT ![k] = @ - 1]

Fault == Happens("db")

IsAdmin(c) == token[c] # None /\ role[token[c]] = "admin"

(* The name of c's request, as its handler cleans it.                      *)
Key(c) == Canonical[req[c].name]

At(c, l, op) == pc[c] = l /\ req[c].op = op

-----------------------------------------------------------------------------
(* A request comes in: middleware and validation, which touch no row.      *)

Receive(c, r, l, k) ==
  /\ pc[c] = "idle"
  /\ pc' = [pc EXCEPT ![c] = l] /\ req' = [req EXCEPT ![c] = r]
  /\ code' = [code EXCEPT ![c] = k]
  /\ wasAdmin' = IF IsAdmin(c) THEN wasAdmin \cup {c} ELSE wasAdmin
  /\ UNCHANGED <<shown, tables, sessions, acked, budget>>

(* The signature holds, the token is not older than a day.                 *)
Authentic(c) == token[c] # None /\ c \notin expired

Admitted(c, r) == r.op \in Public \/ Authentic(c)

NeedsName == {"signup", "login", "createProblem", "getProblem", "submit"}

(* The query of a list counts as its body: a problem_id that is no id.     *)
HasBody   == {"signup", "login", "createProblem", "submit", "listSubmissions"}

Rejected(r) ==
  \/ r.op \in NeedsName /\ Canonical[r.name] = Blank
  \/ r.op \in HasBody /\ r.body \in Bad
  \/ r.op \in {"getSubmission", "events"} /\ r.id = 0

Unauthorized(c, r) == ~Admitted(c, r) /\ Receive(c, r, "reply", 401)

(* RequireAnyRole stands before the handler, and so before its validation. *)
AskRole(c, r) ==
  /\ Admitted(c, r) /\ r.op = "createProblem"
  /\ Receive(c, r, "role", 0)

BadRequest(c, r) ==
  /\ Admitted(c, r) /\ r.op \notin {"createProblem", "panic"} /\ Rejected(r)
  /\ Receive(c, r, "reply", 400)

Accept(c, r) ==
  /\ Admitted(c, r) /\ r.op \notin {"createProblem", "panic"} /\ ~Rejected(r)
  /\ Receive(c, r, "call", 0)

(* A handler panics: Recovery answers for it.                              *)
Panic(c, r) == r.op = "panic" /\ Receive(c, r, "reply", 500)

Arrive(c, r) ==
  \/ Unauthorized(c, r) \/ AskRole(c, r) \/ BadRequest(c, r)
  \/ Accept(c, r) \/ Panic(c, r)

-----------------------------------------------------------------------------
(* The role check: the row is read when the role is needed.                *)

Answer(c, k) ==
  /\ pc' = [pc EXCEPT ![c] = "reply"] /\ code' = [code EXCEPT ![c] = k]
  /\ UNCHANGED req

Show(c, S) == shown' = [shown EXCEPT ![c] = S]

RoleAllowed(c) ==
  /\ At(c, "role", "createProblem") /\ IsAdmin(c)
  /\ \/ Rejected(req[c]) /\ Answer(c, 400)
     \/ ~Rejected(req[c]) /\ pc' = [pc EXCEPT ![c] = "call"] /\ UNCHANGED <<req, code>>
  /\ UNCHANGED <<shown, tables, sessions, history, budget>>

RoleRefusedGoesOn(c) ==   \* mutant: no return after the 403
  /\ At(c, "role", "createProblem") /\ ~IsAdmin(c)
  /\ pc' = [pc EXCEPT ![c] = "call"]
  /\ UNCHANGED <<req, code, shown, tables, sessions, history, budget>>

RoleRefused(c) ==
  /\ At(c, "role", "createProblem") /\ ~IsAdmin(c)
  /\ Answer(c, 403)
  /\ UNCHANGED <<shown, tables, sessions, history, budget>>

RoleErr(c) ==
  /\ At(c, "role", "createProblem") /\ Fault
  /\ Answer(c, 401)
  /\ UNCHANGED <<shown, tables, sessions, history>>

-----------------------------------------------------------------------------
(* Accounts.                                                               *)

VerifyPassword(b, digest) == Digest[b] = digest

SignupRole(r) == IF r.role = "" THEN "user" ELSE r.role

RoleUnchecked(c) == TRUE  \* mutant: the CHECK constraint of role is missing
ValidRole(c) == SignupRole(req[c]) \in Roles

EmailFree(c) == password[Key(c)] = None

InsertUser(c) ==
  /\ password' = [password EXCEPT ![Key(c)] = Digest[req[c].body]]
  /\ role' = [role EXCEPT ![Key(c)] = SignupRole(req[c])]
  /\ UNCHANGED <<problems, subs>>

SignupUpserts(c) ==      \* mutant: ON CONFLICT (email) DO UPDATE
  /\ At(c, "call", "signup") /\ ValidRole(c)
  /\ InsertUser(c) /\ Answer(c, 201)
  /\ UNCHANGED <<shown, sessions, history, budget>>

Signup(c) ==
  /\ At(c, "call", "signup") /\ ValidRole(c) /\ EmailFree(c)
  /\ InsertUser(c) /\ Answer(c, 201)
  /\ UNCHANGED <<shown, sessions, history, budget>>

(* The unique index refuses: 23505.                                        *)
SignupTaken(c) ==
  /\ At(c, "call", "signup") /\ ValidRole(c) /\ ~EmailFree(c)
  /\ Answer(c, 409)
  /\ UNCHANGED <<shown, tables, sessions, history, budget>>

SignupErrConflicts(c) == \* mutant: every error of the INSERT is taken for 23505
  /\ At(c, "call", "signup") /\ Fault
  /\ Answer(c, 409)
  /\ UNCHANGED <<shown, tables, sessions, history>>

(* Any other error, the row written or not.                                *)
SignupErr(c) ==
  /\ At(c, "call", "signup")
  /\ \/ ~ValidRole(c) /\ UNCHANGED <<tables, budget>>
     \/ Fault /\ UNCHANGED tables
     \/ Fault /\ ValidRole(c) /\ EmailFree(c) /\ InsertUser(c)
  /\ Answer(c, 500)
  /\ UNCHANGED <<shown, sessions, history>>

Login(c) ==
  /\ At(c, "call", "login")
  /\ Answer(c, IF ~EmailFree(c) /\ VerifyPassword(req[c].body, password[Key(c)])
                 THEN 200 ELSE 401)
  /\ UNCHANGED <<shown, tables, sessions, history, budget>>

-----------------------------------------------------------------------------
(* Problems.                                                               *)

SlugFree(c) == problems[Key(c)] = None

InsertProblem(c) ==
  /\ problems' = [problems EXCEPT ![Key(c)] = req[c].body]
  /\ UNCHANGED <<password, role, subs>>

CreateProblemUpserts(c) ==  \* mutant: ON CONFLICT (slug) DO UPDATE
  /\ At(c, "call", "createProblem")
  /\ InsertProblem(c) /\ Answer(c, 201) /\ Show(c, {Key(c)})
  /\ UNCHANGED <<sessions, history, budget>>

CreateProblem(c) ==
  /\ At(c, "call", "createProblem") /\ SlugFree(c)
  /\ InsertProblem(c) /\ Answer(c, 201) /\ Show(c, {Key(c)})
  /\ UNCHANGED <<sessions, history, budget>>

(* The slug is taken, or the statement fails, the row written or not.      *)
CreateProblemErr(c) ==
  /\ At(c, "call", "createProblem")
  /\ \/ ~SlugFree(c) /\ UNCHANGED <<tables, budget>>
     \/ Fault /\ UNCHANGED tables
     \/ Fault /\ SlugFree(c) /\ InsertProblem(c)
  /\ Answer(c, 500)
  /\ UNCHANGED <<shown, sessions, history>>

Exists(n) == problems[n] # None

AllProblems == {n \in Names : Exists(n)}

ListProblems(c) ==
  /\ At(c, "call", "listProblems")
  /\ Answer(c, 200) /\ Show(c, AllProblems)
  /\ UNCHANGED <<tables, sessions, history, budget>>

GetProblem(c) ==
  /\ At(c, "call", "getProblem")
  /\ \/ Exists(Key(c)) /\ Answer(c, 200) /\ Show(c, {Key(c)})
     \/ ~Exists(Key(c)) /\ Answer(c, 500) /\ UNCHANGED shown
  /\ UNCHANGED <<tables, sessions, history, budget>>

-----------------------------------------------------------------------------
(* Submissions, as their user sees them.  A problem is named by its id,    *)
(* which stands for its slug here: neither ever changes.                   *)

InsertSubmission(c) ==
  /\ Exists(req[c].name) /\ Len(subs) < MaxSubs
  /\ subs' = Append(subs, [user |-> token[c], problem |-> req[c].name])
  /\ UNCHANGED <<password, role, problems>>

Submit(c) ==
  /\ At(c, "call", "submit")
  /\ InsertSubmission(c) /\ Answer(c, 202) /\ Show(c, {Len(subs) + 1})
  /\ UNCHANGED <<sessions, history, budget>>

SubmitErrAccepts(c) ==   \* mutant: the error of the INSERT is only logged
  /\ At(c, "call", "submit") /\ ~Exists(req[c].name)
  /\ Answer(c, 202) /\ Show(c, {0})
  /\ UNCHANGED <<tables, sessions, history, budget>>

(* The foreign key fails, or the statement does, the row written or not.   *)
SubmitErr(c) ==
  /\ At(c, "call", "submit")
  /\ \/ ~Exists(req[c].name) /\ UNCHANGED <<tables, budget>>
     \/ Fault /\ (UNCHANGED tables \/ InsertSubmission(c))
  /\ Answer(c, 500)
  /\ UNCHANGED <<shown, sessions, history>>

Own(c, i) == subs[i].user = token[c]

(* GET /submissions/{id} and the first read of GET /submissions/{id}/events. *)
ReadOne(c) ==
  LET i == req[c].id IN
  /\ pc[c] = "call" /\ req[c].op \in {"getSubmission", "events"}
  /\ \/ i \notin DOMAIN subs /\ Answer(c, 404) /\ UNCHANGED shown
     \/ i \in DOMAIN subs /\ ~Own(c, i) /\ Answer(c, 403) /\ UNCHANGED shown
     \/ /\ i \in DOMAIN subs /\ Own(c, i) /\ Show(c, {i})
        /\ IF req[c].op = "events"
             THEN pc' = [pc EXCEPT ![c] = "stream"] /\ UNCHANGED <<req, code>>
             ELSE Answer(c, 200)
  /\ UNCHANGED <<tables, sessions, history, budget>>

ListedOfAll(c) ==        \* mutant: the list forgets whose submissions it is about
  {i \in DOMAIN subs : req[c].name \in {Blank, subs[i].problem}}

OfUser(c) == {i \in DOMAIN subs : Own(c, i)}

(* ListByUser, or with ?problem_id= ListByUserAndProblem.                  *)
Listed(c) == {i \in OfUser(c) : req[c].name \in {Blank, subs[i].problem}}

ListSubmissions(c) ==
  /\ At(c, "call", "listSubmissions")
  /\ Answer(c, 200) /\ Show(c, Listed(c))
  /\ UNCHANGED <<tables, sessions, history, budget>>

(* A SELECT fails: no row to answer with.                                  *)
ReadErr(c) ==
  /\ pc[c] = "call" /\ req[c].op \notin {"signup", "createProblem", "submit"}
  /\ Fault /\ Answer(c, 500)
  /\ UNCHANGED <<shown, tables, sessions, history>>

-----------------------------------------------------------------------------
(* The end of a request.                                                   *)

Over(c) ==
  /\ pc' = [pc EXCEPT ![c] = "idle"] /\ req' = [req EXCEPT ![c] = None]
  /\ code' = [code EXCEPT ![c] = 0] /\ Show(c, {})
  /\ wasAdmin' = wasAdmin \ {c}

(* The client reads the answer: a token to use, an id or slug to rely on.  *)
Reply(c) ==
  /\ pc[c] = "reply" /\ Over(c)
  /\ IF req[c].op = "login" /\ code[c] = 200
       THEN token' = [token EXCEPT ![c] = Key(c)] /\ expired' = expired \ {c}
       ELSE UNCHANGED sessions
  /\ acked' = IF code[c] \in {201, 202} THEN [acked EXCEPT ![c] = @ \cup shown[c]] ELSE acked
  /\ UNCHANGED <<tables, budget>>

(* A stream ends with its submission.                                      *)
StreamEnds(c) ==
  /\ pc[c] = "stream" /\ Over(c)
  /\ UNCHANGED <<tables, sessions, acked, budget>>

(* The connection breaks: whatever was written stays, nobody is told.      *)
Cut(c) ==
  /\ pc[c] # "idle" /\ Over(c)
  /\ UNCHANGED <<tables, sessions, acked, budget>>

TokenExpires(c) ==
  /\ token[c] # None /\ c \notin expired /\ expired' = expired \cup {c}
  /\ Happens("expiry")
  /\ UNCHANGED <<token, tables, calls, history>>

(* Nothing in the API changes a role: an operator does, in Postgres.       *)
SetRole(n, r) ==
  /\ password[n] # None /\ role[n] # r /\ role' = [role EXCEPT ![n] = r]
  /\ Happens("role")
  /\ wasAdmin' = wasAdmin \cup
       {c \in Clients : r = "admin" /\ token[c] = n /\ pc[c] # "idle"}
  /\ UNCHANGED <<password, problems, subs, sessions, calls, acked>>

-----------------------------------------------------------------------------
(* What a handler does next by itself.                                     *)
Work(c) ==
  \/ RoleAllowed(c) \/ RoleRefused(c) \/ RoleErr(c)
  \/ Signup(c) \/ SignupTaken(c) \/ SignupErr(c) \/ Login(c)
  \/ CreateProblem(c) \/ CreateProblemErr(c) \/ ListProblems(c) \/ GetProblem(c)
  \/ Submit(c) \/ SubmitErr(c) \/ ReadOne(c) \/ ListSubmissions(c) \/ ReadErr(c)
  \/ Reply(c)

Outside ==
  \/ \E c \in Clients : Cut(c) \/ StreamEnds(c) \/ TokenExpires(c)
  \/ \E n \in Names, r \in Roles : SetRole(n, r)

Next ==
  \/ \E c \in Clients : Work(c) \/ \E r \in Requests[c] : Arrive(c, r)
  \/ Outside

Spec == Init /\ [][Next]_vars

-----------------------------------------------------------------------------
(* What holds in every state: the shape of the state.                      *)
TableTypes ==
  /\ password \in [Names -> Digests \cup {None}]
  /\ role \in [Names -> Roles \cup {None}]
  /\ problems \in [Names -> Bodies \cup {None}]
  /\ subs \in Seq([user : Names, problem : Names])

CallTypes ==
  /\ token \in [Clients -> Names \cup {None}] /\ expired \subseteq Clients
  /\ pc \in [Clients -> Labels] /\ req \in [Clients -> AllRequests \cup {None}]
  /\ \A c \in Clients : pc[c] = "idle" <=> req[c] = None
  /\ code \in [Clients -> Codes] /\ shown \in [Clients -> SUBSET (Names \cup Nat)]
  /\ wasAdmin \subseteq Clients /\ acked \in [Clients -> SUBSET (Names \cup Nat)]
  /\ budget \in [EventKinds -> Nat]

TypeOK == TableTypes /\ CallTypes

(* An answer is still true when the client reads it, whatever other        *)
(* requests did since: whoever is told 201 has the account (with the       *)
(* password sent) or the problem (with the text sent), 409 means that the  *)
(* address is taken, a log-in was with the account's password.             *)
AnswerTrue(c) ==
  LET r == req[c] IN
  /\ r.op = "signup" /\ code[c] = 201 => password[Key(c)] = Digest[r.body]
  /\ r.op = "signup" /\ code[c] = 409 => password[Key(c)] # None
  /\ r.op = "login" /\ code[c] = 200 => password[Key(c)] = Digest[r.body]
  /\ r.op = "createProblem" /\ code[c] = 201 => problems[Key(c)] = r.body

AnswersTrue == \A c \in Clients : pc[c] = "reply" => AnswerTrue(c)

(* The token names a user, not a role: whoever gets as far as creating a   *)
(* problem was an admin at some moment since the request came, so a        *)
(* demotion counts for every later request, however old the token.         *)
AdminWhenCreating ==
  \A c \in Clients : At(c, "call", "createProblem") => c \in wasAdmin

(* No request shows a submission of somebody else, and no stream follows   *)
(* one.                                                                    *)
SeesOwn(c) ==
  pc[c] # "idle" /\ req[c].op \in {"getSubmission", "listSubmissions", "events"} =>
    \A i \in shown[c] : i \in DOMAIN subs /\ Own(c, i)

OwnRowsOnly == \A c \in Clients : SeesOwn(c)

(* What a client was told is created, it finds again: in its own lists, by *)
(* its id, and in the list of problems.                                    *)
FindsItsWrites(c) ==
  LET r == req[c] IN
  /\ r.op = "listSubmissions" /\ code[c] = 200 =>
       \A i \in acked[c] \cap Nat :
         /\ i \in DOMAIN subs
         /\ Own(c, i) /\ r.name \in {Blank, subs[i].problem} => i \in shown[c]
  /\ r.op = "getSubmission" /\ code[c] = 404 => r.id \notin acked[c]
  /\ r.op = "listProblems" /\ code[c] = 200 => acked[c] \cap Names \subseteq shown[c]

ReadYourWrites == \A c \in Clients : pc[c] = "reply" => FindsItsWrites(c)

-----------------------------------------------------------------------------
(* Why the above hold, whatever requests come in between: tables only      *)
(* grow, a token names an account, and what a client is shown or has been  *)
(* told exists.                                                            *)
TokenSound(c) ==
  /\ token[c] # None => password[token[c]] # None
  /\ pc[c] \in {"role", "call", "stream"} /\ req[c].op \in Protected => token[c] # None

Witnessed(c) ==
  /\ c \in wasAdmin => pc[c] # "idle"
  /\ pc[c] # "idle" /\ IsAdmin(c) => c \in wasAdmin

ShownAtTheEnd(c) == pc[c] \in {"idle", "role", "call"} => shown[c] = {}

KnownExists(c) ==
  \A x \in shown[c] \cup acked[c] : /\ x \in Nat => x \in DOMAIN subs
                                    /\ x \in Names => Exists(x)

Bookkeeping ==
  \A c \in Clients :
    TokenSound(c) /\ Witnessed(c) /\ ShownAtTheEnd(c) /\ KnownExists(c)

Promises == AnswersTrue /\ AdminWhenCreating /\ OwnRowsOnly /\ ReadYourWrites

IndInv == TypeOK /\ Bookkeeping /\ Promises

-----------------------------------------------------------------------------
(* Both tables are what UniqueTable promises: however sign-ups for one     *)
(* address, or posts of one slug, meet, fail and are repeated, the first   *)
(* INSERT decides and nothing it wrote is overwritten.                     *)
Users == INSTANCE UniqueTable WITH
  Keys <- Names, Values <- Digests, table <- password

Slugs == INSTANCE UniqueTable WITH
  Keys <- Names, Values <- Bodies, table <- problems

AccountsTakenOnce == Users!Spec
SlugsTakenOnce    == Slugs!Spec
=============================================================================
