------------------------------- MODULE Session -------------------------------
(***************************************************************************)
(* Signing in and out of the web client, and what its requests do to the   *)
(* session while they are under way.                                       *)
(*                                                                         *)
(*   gate       src/frontend/src/components/auth/AuthGate.tsx, LoginScreen *)
(*   requests   src/frontend/src/api/http.ts, authApi.ts, boardLoader.ts   *)
(*   storage    src/frontend/src/api/session.ts  (one tab: sessionStorage) *)
(*   server     src/backend/src/auth/auth.service.ts, jwt-auth.guard.ts    *)
(*                                                                         *)
(* A request reads the token when it is sent; its answer comes any time    *)
(* later, whatever the user has done since.  Every user is in an           *)
(* organisation of their own, with one board.  A token is its number in    *)
(* the order of issue.  A load fetches the boards, then Width parts of the *)
(* board at once, then Width lists of cards at once.                       *)
(***************************************************************************)
EXTENDS Integers, Sequences, FiniteSets

CONSTANTS
  User,
  None,
  Seed,         \* the demo board the store starts with
  Width,        \* requests a load has under way at once
  MaxLogins,    \* bound: log-ins the server answers with a token
  MaxCalls,     \* bound: mutations sent
  MaxLoads,     \* bound: loads started, after which the user asks for no more
  MaxFailures   \* bound: requests without an answer, and page reloads

ASSUME SessionAssumption ==
  /\ None \notin User /\ Seed \notin User /\ None # Seed
  /\ Width \in Nat \ {0}

VARIABLES
  issued,   \* server: the user of every token so far
  expired,  \* server: tokens past their lifetime
  active,   \* server: users that may sign in
  storage,  \* sessionStorage: the token and the user, 0 and None if cleared
  page,     \* the gate's state and the store's board
  loads,    \* fetchBoardSnapshot calls under way
  calls,    \* requests under way
  used      \* what is spent of each bound

vars == <<issued, expired, active, storage, page, loads, calls, used>>
server == <<issued, expired, active>>

Token == 1..Len(issued)
Owner(t) == issued[t]
Bound == {"calls", "loads", "failures"}
SignedOut == [token |-> 0, user |-> None]
SetSession(token, user) == [token |-> token, user |-> user]

TypeOK ==
  /\ issued \in Seq(User) /\ expired \subseteq Token /\ active \subseteq User
  /\ storage \in [token : {0} \cup Token, user : User \cup {None}]
  /\ page \in [session : User \cup {None}, board : User \cup {Seed},
               bootstrapping : BOOLEAN, loading : BOOLEAN, error : BOOLEAN]
  /\ loads \subseteq [id : Nat, stage : {"boards", "parts", "cards"},
                      board : User \cup {Seed, None}, left : 1..Width]
  /\ calls \subseteq [kind : {"login", "me", "part", "mutation"}, token : {0} \cup Token,
                      user : User \cup {None}, load : Nat, index : Nat]
  /\ \A c \in calls : c.kind # "login" => c.token \in Token
  /\ used \in [Bound -> Nat]

Spend(b, max) == used[b] < max /\ used' = [used EXCEPT ![b] = @ + 1]

---------------------------------------------------------------------------
(* The screens                                                             *)

\* Not waiting for the stored session to be confirmed.
ScreenWithoutBoot(p) ==
  IF p.session = None THEN "login"
  ELSE IF p.loading /\ ~p.error THEN "loading"
  ELSE IF p.error THEN "error" ELSE "board"

Screen(p) ==
  IF p.bootstrapping THEN "boot"
  ELSE IF p.session = None THEN "login"
  ELSE IF p.loading /\ ~p.error THEN "loading"
  ELSE IF p.error THEN "error" ELSE "board"

\* getAuthUser: a whole user or none.
AuthUser(s) == s.user

\* readStoredSession: nobody without a token.
StoredSession(s) == IF s.token = 0 THEN None ELSE AuthUser(s)

---------------------------------------------------------------------------
(* Requests                                                                *)

\* Sending the request without looking for a token.
MaySendAlways(s) == TRUE

\* apiRequest throws at once when there is no token.
MaySend(s) == s.token # 0

Call(kind, s) == [kind |-> kind, token |-> s.token, user |-> None, load |-> 0, index |-> 0]

\* The requests of one stage of a load, sent together.
PartsOf(load, s) ==
  {[Call("part", s) EXCEPT !.load = load.id, !.index = i] : i \in 1 .. load.left}

Load(id, stage, board) ==
  [id |-> id, stage |-> stage, board |-> board,
   left |-> IF stage = "boards" THEN 1 ELSE Width]

\* Loading without telling the gate.
LoadingPageQuiet(p) == p

LoadingPage(p) == [p EXCEPT !.loading = TRUE, !.error = FALSE]

\* A load that fails without taking the spinner away.
FailedPageSpinning(p) == p

\* `finally` ends the bootstrap that waits for the load, if one does.
FailedPage(p) == [p EXCEPT !.loading = FALSE, !.error = TRUE, !.bootstrapping = FALSE]

HydratedPage(p, board) ==
  [p EXCEPT !.board = board, !.loading = FALSE, !.error = FALSE, !.bootstrapping = FALSE]

\* Start a load from page p and storage s, beside the calls in `others`.
StartLoad(stage, board, p, s, others) ==
  LET load == Load(used.loads + 1, stage, board) IN
  /\ used' = [used EXCEPT !.loads = @ + 1]
  /\ IF MaySend(s)
     THEN /\ loads' = loads \cup {load}
          /\ calls' = others \cup PartsOf(load, s)
          /\ page' = LoadingPage(p)
     ELSE /\ loads' = loads /\ calls' = others
          /\ page' = FailedPage(LoadingPage(p))

---------------------------------------------------------------------------
(* The page                                                                *)

\* What a page finds stored when it opens: it asks the server who that is
\* before it shows anything.
FreshPage(s) ==
  [session |-> StoredSession(s), board |-> Seed, loading |-> FALSE,
   error |-> FALSE, bootstrapping |-> StoredSession(s) # None]

\* The requests of the page it replaces are aborted.
Open(s) ==
  /\ storage' = s
  /\ page' = FreshPage(s)
  /\ loads' = {}
  /\ calls' = IF StoredSession(s) = None THEN {} ELSE {Call("me", s)}

Init ==
  /\ issued = <<>> /\ expired = {} /\ active = User
  /\ storage = SignedOut /\ page = FreshPage(SignedOut)
  /\ loads = {} /\ calls = {}
  /\ used = [b \in Bound |-> 0]

\* The form is disabled while a log-in is under way.
SubmitLogin(u) ==
  /\ Screen(page) = "login"
  /\ ~ \E c \in calls : c.kind = "login"
  /\ Len(issued) < MaxLogins
  /\ calls' = calls \cup {[Call("login", SignedOut) EXCEPT !.user = u]}
  /\ UNCHANGED <<server, storage, page, loads, used>>

Mutate ==
  /\ Screen(page) = "board" /\ MaySend(storage)
  /\ Spend("calls", MaxCalls)
  /\ calls' = calls \cup {[Call("mutation", storage) EXCEPT !.index = used.calls]}
  /\ UNCHANGED <<server, storage, page, loads>>

\* needsResync, or the user asks: refetchBoard names the board it has.
Refetch ==
  /\ Screen(page) = "board"
  /\ used.loads < MaxLoads
  /\ StartLoad("parts", page.board, page, storage, calls)
  /\ UNCHANGED <<server, storage>>

Retry ==
  /\ Screen(page) = "error"
  /\ used.loads < MaxLoads
  /\ StartLoad("boards", None, page, storage, calls)
  /\ UNCHANGED <<server, storage>>

\* The error screen's button: the error stays, and what is under way goes on.
SignOut ==
  /\ Screen(page) = "error"
  /\ storage' = SignedOut
  /\ page' = [page EXCEPT !.session = None]
  /\ UNCHANGED <<server, loads, calls, used>>

\* The header's button, drawn only for a stored user, reloads the page.
SignOutAndReload ==
  /\ Screen(page) = "board" /\ AuthUser(storage) # None
  /\ Open(SignedOut)
  /\ UNCHANGED <<server, used>>

ReloadPage ==
  /\ Spend("failures", MaxFailures)
  /\ Open(storage)
  /\ UNCHANGED server

---------------------------------------------------------------------------
(* Answers                                                                 *)

\* AuthService.login: one 401 for whatever is wrong.
Admitted(u) == u \in active

\* AuthService.profile
HasProfile(u) == u \in active

\* The guard verifies the token; /auth/me also wants a profile.
Unauthorized(c) ==
  \/ c.token \in expired
  \/ c.kind = "me" /\ ~HasProfile(Owner(c.token))

\* A 401 signs the tab out, whichever token is stored by now.
StorageAfter(c) == IF Unauthorized(c) THEN SignedOut ELSE storage

\* The number of a load's answers still to come, and the board, if it is the
\* user's own: another organisation's is not found.
LoadOf(c) == {l \in loads : l.id = c.load}
Found(c, l) == ~Unauthorized(c) /\ (l.stage = "boards" \/ l.board = Owner(c.token))

NextStage(stage) == IF stage = "boards" THEN "parts" ELSE "cards"

LoginAnswered(c) ==
  /\ c.kind = "login"
  /\ \/ /\ Admitted(c.user)
        /\ issued' = Append(issued, c.user)
        /\ LET s == SetSession(Len(issued) + 1, c.user) IN
           /\ storage' = s
           /\ StartLoad("boards", None, [page EXCEPT !.session = StoredSession(s)],
                        s, calls \ {c})
        /\ UNCHANGED <<expired, active>>
     \/ /\ ~Admitted(c.user)
        /\ calls' = calls \ {c}
        /\ UNCHANGED <<server, storage, page, loads, used>>

\* Bootstrapping fails: logout.
Refused(c) ==
  /\ storage' = SignedOut
  /\ page' = [page EXCEPT !.session = None, !.error = FALSE, !.bootstrapping = FALSE]
  /\ calls' = calls \ {c}
  /\ UNCHANGED loads

\* fetchMe stores the profile beside whatever token is stored by now.
MeAnswered(c) ==
  /\ c.kind = "me"
  /\ \/ Unauthorized(c) /\ Refused(c) /\ UNCHANGED used
     \/ /\ ~Unauthorized(c)
        /\ LET me == Owner(c.token)
               s  == IF storage.token = 0 THEN storage ELSE SetSession(storage.token, me)
           IN /\ storage' = s
              /\ StartLoad("boards", None, [page EXCEPT !.session = me], s, calls \ {c})
  /\ UNCHANGED server

PartAnswered(c) ==
  /\ c.kind = "part"
  /\ storage' = StorageAfter(c)
  /\ \/ /\ LoadOf(c) = {}                         \* its load failed already
        /\ calls' = calls \ {c}
        /\ UNCHANGED <<page, loads>>
     \/ \E l \in LoadOf(c) :
          LET board == IF l.stage = "boards" THEN Owner(c.token) ELSE l.board
              more  == Load(l.id, NextStage(l.stage), board)
          IN
          \/ /\ ~Found(c, l)
             /\ loads' = loads \ {l}
             /\ page' = FailedPage(page)
             /\ calls' = calls \ {c}
          \/ /\ Found(c, l) /\ l.left > 1
             /\ loads' = (loads \ {l}) \cup {[l EXCEPT !.left = @ - 1]}
             /\ calls' = calls \ {c}
             /\ UNCHANGED page
          \/ /\ Found(c, l) /\ l.left = 1 /\ l.stage # "cards" /\ MaySend(storage)
             /\ loads' = (loads \ {l}) \cup {more}
             /\ calls' = (calls \ {c}) \cup PartsOf(more, storage)
             /\ UNCHANGED page
          \/ /\ Found(c, l) /\ l.left = 1 /\ l.stage # "cards" /\ ~MaySend(storage)
             /\ loads' = loads \ {l}
             /\ page' = FailedPage(page)
             /\ calls' = calls \ {c}
          \/ /\ Found(c, l) /\ l.left = 1 /\ l.stage = "cards"
             /\ loads' = loads \ {l}
             /\ page' = HydratedPage(page, l.board)
             /\ calls' = calls \ {c}
  /\ UNCHANGED <<server, used>>

MutationAnswered(c) ==
  /\ c.kind = "mutation"
  /\ storage' = StorageAfter(c)
  /\ calls' = calls \ {c}
  /\ UNCHANGED <<server, page, loads, used>>

Answer(c) ==
  LoginAnswered(c) \/ MeAnswered(c) \/ PartAnswered(c) \/ MutationAnswered(c)

\* No answer: the request throws, and the session stays, but for fetchMe.
NoAnswer(c) ==
  /\ Spend("failures", MaxFailures)
  /\ \/ c.kind = "me" /\ Refused(c)
     \/ /\ c.kind # "me"
        /\ calls' = calls \ {c}
        /\ loads' = loads \ LoadOf(c)
        /\ page' = IF LoadOf(c) = {} THEN page ELSE FailedPage(page)
        /\ UNCHANGED storage
  /\ UNCHANGED server

---------------------------------------------------------------------------
(* The server's side                                                       *)

Expire(t) ==
  /\ t \in Token \ expired
  /\ expired' = expired \cup {t}
  /\ UNCHANGED <<issued, active, storage, page, loads, calls, used>>

\* Whoever runs the server sets is_active to false.
Deactivate(u) ==
  /\ u \in active
  /\ active' = active \ {u}
  /\ UNCHANGED <<issued, expired, storage, page, loads, calls, used>>

Next ==
  \/ \E u \in User : SubmitLogin(u) \/ Deactivate(u)
  \/ Mutate \/ Refetch \/ Retry \/ SignOut \/ SignOutAndReload \/ ReloadPage
  \/ \E c \in calls : Answer(c) \/ NoAnswer(c)
  \/ \E t \in Token : Expire(t)

Spec == Init /\ [][Next]_vars

\* Every request is answered, or fails.
FairSpec == Spec /\ WF_vars(\E c \in calls : Answer(c))

---------------------------------------------------------------------------
(* Properties                                                              *)

\* As long as there is a token, the user stored beside it and the user the
\* page is signed in as are the one it was issued to, although fetchMe writes
\* its answer beside whatever token it finds.  authApi.ts:44-58.
SessionOwnsToken ==
  storage.token # 0 =>
    /\ storage.user = Owner(storage.token)
    /\ page.session = storage.user

\* The board on the screen is the signed-in user's, whoever was signed in
\* before and whatever is still under way; no load can replace it, and no two
\* loads race.  AuthGate.tsx:79-119.
BoardIsTheSessions ==
  /\ Screen(page) = "board" => page.board = page.session /\ loads = {}
  /\ \A l, m \in loads : l = m

\* No screen without a button stays: connecting and loading come to an end.
ScreenSettles ==
  Screen(page) \in {"boot", "loading"} ~> Screen(page) \notin {"boot", "loading"}
=============================================================================
