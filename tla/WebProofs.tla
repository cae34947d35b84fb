------------------------------ MODULE WebProofs ------------------------------
(***************************************************************************)
(* The web client: who is signed in, and one board view.                   *)
(*                                                                         *)
(* Page, stored user and token belong together, and the board on the       *)
(* screen is the signed-in user's: for any number of users, log-ins,       *)
(* requests and loads.                                                     *)
(* While fetchMe is under way nothing else is, so it writes its answer     *)
(* beside the token it asked about.  There is one load at a time, only     *)
(* while somebody is signed in; requests of the loads before it carry      *)
(* other numbers, so a late answer of a former session cannot touch it.    *)
(*                                                                         *)
(* In a board view a move under way carries the number of its card's moves *)
(* so far, and every later drag or frame of the card goes past it.         *)
(*                                                                         *)
(* A view at rest agrees with the server.  In between, a card of the view  *)
(* is where its latest move put it, and where the first of its moves took  *)
(* it from is the list the server has it in; unless a frame about it is on *)
(* its way, which will put it right, or a frame that calls for a refetch.  *)
(* The refetch itself may find a card that moves meanwhile twice or not at *)
(* all, but then the frame of that move is still to come.                  *)
(***************************************************************************)
EXTENDS Session, BoardStore, SequenceTheorems, FiniteSetTheorems, WellFoundedInduction, TLAPS

Calls == [kind : {"login", "me", "part", "mutation"}, token : {0} \cup Token,
          user : User \cup {None}, load : Nat, index : Nat]

Loads == [id : Nat, stage : {"boards", "parts", "cards"},
          board : User \cup {Seed, None}, left : 1 .. Width]

\* The requests under way.
CallsOK ==
  \A c \in calls :
    /\ c.kind # "part" => c.load = 0
    /\ c.load <= used.loads
    /\ \A l \in loads : l.id = c.load => Owner(c.token) = page.session
    /\ c.kind = "me" =>
         /\ calls = {c} /\ loads = {} /\ page.bootstrapping
         /\ storage.token # 0 => storage.token = c.token
    /\ c.kind = "login" =>
         page.session = None /\ \A d \in calls : d.kind = "login" => d = c

\* The load under way.
LoadsOK ==
  /\ \A l, m \in loads : l = m
  /\ \A l \in loads :
       /\ page.loading /\ ~page.error /\ page.session # None
       /\ 0 < l.id /\ l.id <= used.loads
       /\ l.stage # "boards" => l.board = page.session

ShownOK == Screen(page) = "board" => page.board = page.session

\* The inductive invariant.
SessionInv == TypeOK /\ SessionOwnsToken /\ CallsOK /\ LoadsOK /\ ShownOK

Pages == [session : User \cup {None}, board : User \cup {Seed},
          bootstrapping : BOOLEAN, loading : BOOLEAN, error : BOOLEAN]

Storages == [token : {0} \cup Token, user : User \cup {None}]

---------------------------------------------------------------------------
(* Records and screens                                                     *)

\* The types, component by component.
LEMMA TypeParts ==
  TypeOK <=> /\ issued \in Seq(User) /\ expired \subseteq Token /\ active \subseteq User
             /\ storage \in Storages /\ page \in Pages
             /\ loads \subseteq Loads /\ calls \subseteq Calls
             /\ \A c \in calls : c.kind # "login" => c.token \in Token
             /\ used \in [Bound -> Nat]
  BY DEF TypeOK, Storages, Pages, Loads, Calls

\* What is assumed of the constants.
LEMMA UsersDiffer == None \notin User /\ Seed \notin User /\ None # Seed /\ Width \in Nat \ {0}
  BY SessionAssumption

\* What a token names: a user.
LEMMA OwnersAreUsers ==
  ASSUME issued \in Seq(User)
  PROVE  /\ Token \subseteq Nat /\ 0 \notin Token
         /\ \A t \in Token : Owner(t) \in User
  BY DEF Token, Owner

\* A request as it is sent.
LEMMA CallParts ==
  ASSUME NEW kind \in {"login", "me", "part", "mutation"}, NEW s \in Storages
  PROVE  /\ Call(kind, s) \in Calls
         /\ Call(kind, s).kind = kind /\ Call(kind, s).token = s.token
         /\ Call(kind, s).load = 0
  BY DEF Call, Calls, Storages

\* A load's requests carry its number and the token they were sent with.
LEMMA PartsParts ==
  ASSUME NEW load \in Loads, NEW s \in Storages
  PROVE  /\ PartsOf(load, s) \subseteq Calls
         /\ \A c \in PartsOf(load, s) :
              c.kind = "part" /\ c.token = s.token /\ c.load = load.id
<1> SUFFICES ASSUME NEW c \in PartsOf(load, s)
             PROVE  c \in Calls /\ c.kind = "part" /\ c.token = s.token /\ c.load = load.id
  OBVIOUS
<1>1. PICK i \in 1 .. load.left : c = [Call("part", s) EXCEPT !.load = load.id, !.index = i]
  BY DEF PartsOf
<1>2. i \in Nat /\ load.id \in Nat
  BY UsersDiffer DEF Loads
<1> QED
  BY <1>1, <1>2 DEF Call, Calls, Storages

\* A load and its fields.
LEMMA LoadParts ==
  ASSUME NEW id \in Nat, NEW stage \in {"boards", "parts", "cards"},
         NEW board \in User \cup {Seed, None}
  PROVE  /\ Load(id, stage, board) \in Loads
         /\ Load(id, stage, board).id = id /\ Load(id, stage, board).stage = stage
         /\ Load(id, stage, board).board = board
  BY UsersDiffer DEF Load, Loads

\* How the gate's steps change a page.
LEMMA PageParts ==
  ASSUME NEW p \in Pages
  PROVE  /\ LoadingPage(p) \in Pages /\ LoadingPage(p).session = p.session
         /\ LoadingPage(p).loading /\ ~LoadingPage(p).error
         /\ FailedPage(p) \in Pages /\ FailedPage(p).session = p.session
         /\ FailedPage(p).error
         /\ \A b \in User \cup {Seed} :
              /\ HydratedPage(p, b) \in Pages /\ HydratedPage(p, b).session = p.session
              /\ HydratedPage(p, b).board = b
  BY DEF Pages, LoadingPage, FailedPage, HydratedPage

\* A board is on the screen of a page that waits for nothing.
LEMMA BoardScreen ==
  ASSUME NEW p \in Pages
  PROVE  Screen(p) = "board" <=>
           ~p.bootstrapping /\ p.session # None /\ ~p.loading /\ ~p.error
  BY DEF Screen, Pages

---------------------------------------------------------------------------
(* Loads and pages                                                         *)

\* A load that is started when there is none, for the user of the token.
LEMMA StartLoadKeeps ==
  ASSUME issued' \in Seq(User), used \in [Bound -> Nat], loads = {},
         NEW stage \in {"boards", "parts"}, NEW board \in User \cup {Seed, None},
         NEW p \in Pages, NEW s, NEW others,
         s \in Storages', storage' = s,
         s.token # 0 => s.user = issued'[s.token] /\ p.session = s.user,
         others \subseteq Calls',
         \A c \in others : /\ c.kind \in {"part", "mutation"} /\ c.token \in Token'
                            /\ c.load <= used.loads /\ (c.kind # "part" => c.load = 0),
         stage # "boards" => board = p.session,
         StartLoad(stage, board, p, s, others)
  PROVE  /\ page' \in Pages /\ loads' \subseteq Loads /\ calls' \subseteq Calls'
         /\ \A c \in calls' : c.token \in Token'
         /\ used' \in [Bound -> Nat]
         /\ SessionOwnsToken' /\ CallsOK' /\ LoadsOK' /\ ShownOK'
<1> DEFINE load == Load(used.loads + 1, stage, board)
<1>1. used.loads \in Nat /\ used' \in [Bound -> Nat] /\ used'.loads = used.loads + 1
  BY DEF StartLoad, Bound
<1>2. load \in Loads /\ load.id = used.loads + 1 /\ load.stage = stage /\ load.board = board
  BY <1>1, LoadParts
<1> HIDE DEF load
<1>3. CASE s.token = 0
  <2>1. loads' = {} /\ calls' = others /\ page' = FailedPage(LoadingPage(p))
    BY <1>3 DEF StartLoad, MaySend
  <2>2. page' \in Pages /\ page'.error
    BY <2>1, PageParts
  <2>3. ShownOK'
    BY <2>2, BoardScreen DEF ShownOK
  <2>4. LoadsOK' /\ SessionOwnsToken'
    BY <1>3, <2>1 DEF LoadsOK, SessionOwnsToken
  <2>5. CallsOK'
    <3> SUFFICES ASSUME NEW c \in others
                 PROVE  c.kind \in {"part", "mutation"} /\ (c.kind # "part" => c.load = 0)
                        /\ c.load <= used'.loads
      BY <2>1 DEF CallsOK
    <3>1. c.load \in Nat /\ c.load <= used.loads
      BY DEF Calls
    <3> QED
      BY <1>1, <3>1
  <2> QED
    BY <1>1, <2>1, <2>2, <2>3, <2>4, <2>5
<1>4. CASE s.token # 0
  <2>1. loads' = {load} /\ calls' = others \cup PartsOf(load, s) /\ page' = LoadingPage(p)
    BY <1>4 DEF StartLoad, MaySend, load
  <2>2. /\ page' \in Pages /\ page'.loading /\ ~page'.error /\ page'.session = p.session
    BY <2>1, PageParts
  <2>3. s.token \in Token' /\ p.session = issued'[s.token] /\ p.session \in User
    BY <1>4 DEF Storages, Token, Owner
  <2>4. \A c \in PartsOf(load, s) :
          c \in Calls' /\ c.kind = "part" /\ c.token = s.token /\ c.load = used.loads + 1
    <3> SUFFICES ASSUME NEW c \in PartsOf(load, s)
                 PROVE  c \in Calls' /\ c.kind = "part" /\ c.token = s.token /\ c.load = used.loads + 1
      OBVIOUS
    <3>1. PICK i \in 1 .. load.left : c = [Call("part", s) EXCEPT !.load = load.id, !.index = i]
      BY DEF PartsOf
    <3>2. i \in Nat
      BY <1>2, UsersDiffer DEF Loads
    <3>3. c = [kind |-> "part", token |-> s.token, user |-> None, load |-> load.id, index |-> i]
      BY <3>1 DEF Call
    <3> QED
      BY <1>1, <1>2, <2>3, <3>2, <3>3 DEF Calls
  <2>5. ShownOK'
    BY <2>2, BoardScreen DEF ShownOK
  <2>6. SessionOwnsToken'
    BY <1>4, <2>2 DEF SessionOwnsToken, Owner
  <2>7. LoadsOK'
    BY <1>1, <1>2, <2>1, <2>2, <2>3, UsersDiffer DEF LoadsOK
  <2>8. CallsOK'
    <3> SUFFICES ASSUME NEW c \in calls'
                 PROVE  /\ c.kind \in {"part", "mutation"}
                        /\ c.kind # "part" => c.load = 0
                        /\ c.load <= used'.loads
                        /\ \A l \in loads' : l.id = c.load => Owner(c.token)' = page'.session
      BY DEF CallsOK
    <3>1. CASE c \in others
      <4>1. c.load \in Nat /\ c.load <= used.loads
        BY <3>1 DEF Calls
      <4> QED
        BY <1>1, <1>2, <2>1, <3>1, <4>1
    <3>2. CASE c \in PartsOf(load, s)
      BY <1>1, <2>2, <2>3, <2>4, <3>2 DEF Owner
    <3> QED
      BY <2>1, <3>1, <3>2
  <2> QED
    BY <1>1, <1>2, <2>1, <2>2, <2>3, <2>4, <2>5, <2>6, <2>7, <2>8
<1> QED
  BY <1>3, <1>4

\* A page that opens waits for fetchMe, or asks for a log-in.
LEMMA OpenKeeps ==
  ASSUME TypeOK, NEW s \in Storages, s.token # 0 => s.user = Owner(s.token),
         Open(s), UNCHANGED server, used' \in [Bound -> Nat]
  PROVE  SessionInv'
<1>1. /\ storage' = s /\ page' = FreshPage(s) /\ loads' = {}
      /\ calls' = IF StoredSession(s) = None THEN {} ELSE {Call("me", s)}
  BY DEF Open
<1>2. issued' = issued /\ expired' = expired /\ active' = active
  BY DEF server
<1>3. /\ StoredSession(s) \in User \cup {None} /\ (StoredSession(s) # None => s.token \in Token)
      /\ s.token # 0 => StoredSession(s) = s.user
  BY DEF StoredSession, AuthUser, Storages
<1>4. /\ page' \in Pages /\ page'.session = StoredSession(s)
      /\ page'.bootstrapping <=> StoredSession(s) # None
  BY <1>1, <1>3 DEF FreshPage, Pages
<1>5. /\ calls' \subseteq Calls
      /\ \A c \in calls' : calls' = {c} /\ c.kind = "me" /\ c.token = s.token /\ c.load = 0 
                           /\ page'.bootstrapping /\ c.token \in Token
  BY <1>1, <1>3, <1>4, CallParts
<1>6. TypeOK'
  BY <1>1, <1>2, <1>4, <1>5, TypeParts DEF TypeOK, Pages, Calls, Storages, Token
<1>7. SessionOwnsToken'
  BY <1>1, <1>2, <1>3, <1>4 DEF SessionOwnsToken, Owner
<1>8. CallsOK'
  BY <1>1, <1>5 DEF CallsOK, Bound
<1>9. LoadsOK'
  BY <1>1 DEF LoadsOK
<1>10. ShownOK'
  BY <1>4, BoardScreen DEF ShownOK
<1> QED
  BY <1>6, <1>7, <1>8, <1>9, <1>10 DEF SessionInv

\* What a screen says of the requests under way.
LEMMA ScreenTells ==
  ASSUME SessionInv
  PROVE  /\ Screen(page) = "board" => ~page.bootstrapping /\ page.session # None /\ loads = {}
         /\ Screen(page) = "error" => ~page.bootstrapping /\ page.session # None /\ loads = {}
         /\ Screen(page) = "login" => ~page.bootstrapping /\ page.session = None /\ loads = {}
         /\ Screen(page) = "board" => \A c \in calls : c.kind \in {"part", "mutation"}
         /\ Screen(page) = "error" => \A c \in calls : c.kind \in {"part", "mutation"}
         /\ Screen(page) = "login" => \A c \in calls : c.kind # "me"
<1>1. page \in Pages /\ calls \subseteq Calls
  BY TypeParts DEF SessionInv
<1>2. /\ Screen(page) = "board" => ~page.bootstrapping /\ page.session # None /\ loads = {}
      /\ Screen(page) = "error" => ~page.bootstrapping /\ page.session # None /\ loads = {}
      /\ Screen(page) = "login" => ~page.bootstrapping /\ page.session = None /\ loads = {}
  BY <1>1 DEF Screen, SessionInv, LoadsOK
<1> QED
  BY <1>1, <1>2 DEF SessionInv, CallsOK, Calls

\* Answers take requests away, and at most sign the tab out, fail or advance
\* the load, and send the requests of its next stage.
LEMMA AnswersKeep ==
  ASSUME SessionInv, UNCHANGED server, storage' = storage \/ storage' = SignedOut,
         page' \in Pages, page'.session = page.session, ShownOK',
         loads' \subseteq Loads, \A l, m \in loads' : l = m,
         loads' # {} => page' = page,
         \A l \in loads' : \E m \in loads : l.id = m.id,
         \A l \in loads' : l.stage # "boards" => l.board = page.session,
         \A c \in calls' : \/ c \in calls /\ c.kind # "me"
                          \/ /\ c \in Calls /\ c.kind = "part" /\ c.token \in Token
                             /\ c.load <= used.loads /\ Owner(c.token) = page.session,
         used' \in [Bound -> Nat], used'.loads = used.loads
  PROVE  SessionInv'
<1>1. issued' = issued /\ expired' = expired /\ active' = active
  BY DEF server
<1>2. storage' \in Storages
  BY TypeParts DEF SessionInv, SignedOut, Storages
<1>3. /\ calls' \subseteq Calls /\ \A c \in calls' : c.kind # "login" => c.token \in Token
  BY TypeParts DEF SessionInv
<1>4. TypeOK'
  BY <1>1, <1>2, <1>3, TypeParts DEF SessionInv, TypeOK, Token, Storages, Pages, Loads, Calls
<1>5. SessionOwnsToken'
  BY <1>1 DEF SessionInv, SessionOwnsToken, SignedOut, Owner
<1>6. LoadsOK'
  <2> SUFFICES ASSUME NEW l \in loads'
               PROVE  /\ page.loading /\ ~page.error /\ page.session # None
                      /\ 0 < l.id /\ l.id <= used.loads
    BY DEF LoadsOK
  <2>1. PICK m \in loads : l.id = m.id
    OBVIOUS
  <2> QED
    BY <2>1 DEF SessionInv, LoadsOK
<1>7. CallsOK'
  <2> SUFFICES ASSUME NEW c \in calls'
               PROVE  /\ c.kind # "me" /\ c.load <= used.loads
                      /\ c.kind # "part" => c.load = 0
                      /\ \A l \in loads' : l.id = c.load => Owner(c.token) = page.session
                      /\ c.kind = "login" =>
                           page.session = None /\ \A d \in calls' : d.kind = "login" => d = c
    BY <1>1 DEF CallsOK, Owner
  <2>1. CASE c \in calls /\ c.kind # "me"
    <3>1. \A d \in calls' : d.kind = "login" => d \in calls
      OBVIOUS
    <3>2. \A l \in loads' : l.id = c.load => Owner(c.token) = page.session
      <4> SUFFICES ASSUME NEW l \in loads', l.id = c.load PROVE Owner(c.token) = page.session
        OBVIOUS
      <4>1. PICK m \in loads : l.id = m.id
        OBVIOUS
      <4> QED
        BY <2>1, <4>1 DEF SessionInv, CallsOK
    <3>3. /\ c.load <= used.loads /\ (c.kind # "part" => c.load = 0)
          /\ c.kind = "login" => page.session = None /\ \A d \in calls : d.kind = "login" => d = c
      BY <2>1 DEF SessionInv, CallsOK
    <3> QED
      BY <2>1, <3>1, <3>2, <3>3
  <2>2. CASE c.kind = "part" /\ c.load <= used.loads /\ Owner(c.token) = page.session
    BY <2>2
  <2> QED
    BY <2>1, <2>2
<1> QED
  BY <1>4, <1>5, <1>6, <1>7 DEF SessionInv

---------------------------------------------------------------------------
(* The page's steps                                                        *)

\* The user sends the log-in form.
LEMMA SubmitLoginKeeps ==
  ASSUME SessionInv, NEW u \in User, SubmitLogin(u)
  PROVE  SessionInv'
<1> DEFINE new == [Call("login", SignedOut) EXCEPT !.user = u]
<1>1. /\ calls' = calls \cup {new} /\ UNCHANGED <<server, storage, page, loads, used>>
      /\ \A c \in calls : c.kind # "login"
      /\ Screen(page) = "login"
  BY DEF SubmitLogin
<1>2. new \in Calls /\ new.kind = "login" /\ new.load = 0
  BY DEF Call, Calls, SignedOut
<1> HIDE DEF new
<1>3. ~page.bootstrapping /\ page.session = None /\ loads = {} /\ \A c \in calls : c.kind # "me"
  BY <1>1, ScreenTells
<1>4. issued' = issued /\ expired' = expired /\ active' = active
  BY <1>1 DEF server
<1>5. TypeOK' /\ SessionOwnsToken' /\ LoadsOK' /\ ShownOK'
  BY <1>1, <1>2, <1>4, TypeParts
  DEF SessionInv, TypeOK, Calls, Token, SessionOwnsToken, Owner, LoadsOK, ShownOK, Screen
<1>6. used.loads \in Nat
  BY TypeParts DEF SessionInv, Bound
<1>7. CallsOK'
  BY <1>1, <1>2, <1>3, <1>6 DEF SessionInv, CallsOK
<1> QED
  BY <1>5, <1>7 DEF SessionInv

\* The user changes something on the board.
LEMMA MutateKeeps ==
  ASSUME SessionInv, Mutate
  PROVE  SessionInv'
<1> DEFINE new == [Call("mutation", storage) EXCEPT !.index = used.calls]
<1>1. /\ calls' = calls \cup {new} /\ UNCHANGED <<server, storage, page, loads>>
      /\ Screen(page) = "board" /\ storage.token # 0
      /\ used' = [used EXCEPT !["calls"] = @ + 1]
  BY DEF Mutate, Spend, MaySend
<1>2. storage \in Storages /\ used \in [Bound -> Nat]
  BY TypeParts DEF SessionInv
<1>3. used' \in [Bound -> Nat] /\ used'.loads = used.loads /\ used.loads \in Nat /\ used.calls \in Nat
  BY <1>1, <1>2 DEF Bound
<1>4. new \in Calls /\ new.kind = "mutation" /\ new.load = 0 /\ new.token \in Token
  BY <1>1, <1>2, <1>3 DEF Call, Calls, Storages
<1> HIDE DEF new
<1>5. loads = {} /\ \A c \in calls : c.kind \in {"part", "mutation"}
  BY <1>1, ScreenTells
<1>6. issued' = issued /\ expired' = expired /\ active' = active
  BY <1>1 DEF server
<1>7. TypeOK'
  BY <1>1, <1>3, <1>4, <1>6, TypeParts DEF SessionInv, TypeOK, Calls, Token
<1>8. SessionOwnsToken' /\ LoadsOK' /\ ShownOK'
  BY <1>1, <1>3, <1>5, <1>6 DEF SessionInv, SessionOwnsToken, Owner, LoadsOK, ShownOK, Screen
<1>9. CallsOK'
  BY <1>1, <1>3, <1>4, <1>5 DEF SessionInv, CallsOK
<1> QED
  BY <1>7, <1>8, <1>9 DEF SessionInv

\* A load begun on a page that has none, with nothing but requests of dead
\* loads and mutations under way.
LEMMA LoadBegins ==
  ASSUME SessionInv, UNCHANGED <<server, storage>>, loads = {},
         \A c \in calls : c.kind \in {"part", "mutation"},
         NEW stage \in {"boards", "parts"}, NEW board \in User \cup {Seed, None},
         stage # "boards" => board = page.session,
         StartLoad(stage, board, page, storage, calls)
  PROVE  SessionInv'
<1>1. /\ issued' = issued /\ expired' = expired /\ active' = active /\ storage' = storage
  BY DEF server
<1>2. /\ issued \in Seq(User) /\ expired \subseteq Token /\ active \subseteq User
      /\ storage \in Storages /\ page \in Pages /\ calls \subseteq Calls
      /\ \A c \in calls : c.kind # "login" => c.token \in Token
      /\ used \in [Bound -> Nat]
  BY TypeParts DEF SessionInv
<1>3. /\ storage \in Storages' /\ calls \subseteq Calls'
  BY <1>1, <1>2 DEF Storages, Calls, Token
<1>4. storage.token # 0 => storage.user = issued'[storage.token] /\ page.session = storage.user
  BY <1>1 DEF SessionInv, SessionOwnsToken, Owner
<1>5. \A c \in calls : /\ c.kind \in {"part", "mutation"} /\ c.token \in Token'
                        /\ c.load <= used.loads /\ (c.kind # "part" => c.load = 0)
  BY <1>1, <1>2 DEF SessionInv, CallsOK, Token
<1>6. issued' \in Seq(User)
  BY <1>1, <1>2
<1>7. /\ page' \in Pages /\ loads' \subseteq Loads /\ calls' \subseteq Calls'
      /\ \A c \in calls' : c.token \in Token'
      /\ used' \in [Bound -> Nat]
      /\ SessionOwnsToken' /\ CallsOK' /\ LoadsOK' /\ ShownOK'
  BY <1>1, <1>2, <1>3, <1>4, <1>5, <1>6, StartLoadKeeps
<1>8. TypeOK'
  BY <1>1, <1>2, <1>7 DEF TypeOK, Pages, Loads, Calls, Storages, Token
<1> QED
  BY <1>7, <1>8 DEF SessionInv

\* The board is loaded again.
LEMMA RefetchKeeps ==
  ASSUME SessionInv, Refetch
  PROVE  SessionInv'
<1>1. /\ Screen(page) = "board" /\ UNCHANGED <<server, storage>>
      /\ StartLoad("parts", page.board, page, storage, calls)
  BY DEF Refetch
<1>2. loads = {} /\ \A c \in calls : c.kind \in {"part", "mutation"}
  BY <1>1, ScreenTells
<1>3. page.board = page.session /\ page.board \in User \cup {Seed, None}
  BY <1>1, TypeParts DEF SessionInv, ShownOK, Pages
<1> QED
  BY <1>1, <1>2, <1>3, LoadBegins

\* The user presses the retry button.
LEMMA RetryKeeps ==
  ASSUME SessionInv, Retry
  PROVE  SessionInv'
<1>1. /\ Screen(page) = "error" /\ UNCHANGED <<server, storage>>
      /\ StartLoad("boards", None, page, storage, calls)
  BY DEF Retry
<1>2. loads = {} /\ \A c \in calls : c.kind \in {"part", "mutation"}
  BY <1>1, ScreenTells
<1> QED
  BY <1>1, <1>2, LoadBegins

\* The user signs out.
LEMMA SignOutKeeps ==
  ASSUME SessionInv, SignOut
  PROVE  SessionInv'
<1>1. /\ Screen(page) = "error" /\ storage' = SignedOut
      /\ page' = [page EXCEPT !.session = None]
      /\ UNCHANGED <<server, loads, calls, used>>
  BY DEF SignOut
<1>2. loads = {} /\ \A c \in calls : c.kind \in {"part", "mutation"}
  BY <1>1, ScreenTells
<1>3. /\ page' \in Pages /\ page'.session = None
  BY <1>1, TypeParts DEF SessionInv, Pages
<1>4. issued' = issued /\ expired' = expired /\ active' = active
  BY <1>1 DEF server
<1>5. storage' \in Storages /\ storage'.token = 0
  BY <1>1 DEF SignedOut, Storages
<1>6. TypeOK'
  BY <1>1, <1>3, <1>4, <1>5, TypeParts DEF SessionInv, TypeOK, Pages, Storages, Calls, Token
<1>7. ShownOK'
  BY <1>3, BoardScreen DEF ShownOK
<1>8. SessionOwnsToken' /\ LoadsOK'
  BY <1>1, <1>2, <1>5 DEF SessionOwnsToken, LoadsOK
<1>9. CallsOK'
  BY <1>1, <1>2 DEF SessionInv, CallsOK
<1> QED
  BY <1>6, <1>7, <1>8, <1>9 DEF SessionInv

\* The page is loaded anew.
LEMMA ReopeningKeeps ==
  ASSUME SessionInv, SignOutAndReload \/ ReloadPage
  PROVE  SessionInv'
<1>1. TypeOK /\ storage \in Storages /\ used \in [Bound -> Nat]
  BY TypeParts DEF SessionInv
<1>2. CASE SignOutAndReload
  <2>1. Open(SignedOut) /\ UNCHANGED server /\ used' = used
    BY <1>2 DEF SignOutAndReload
  <2>2. SignedOut \in Storages /\ SignedOut.token = 0
    BY DEF SignedOut, Storages
  <2> QED
    BY <1>1, <2>1, <2>2, OpenKeeps
<1>3. CASE ReloadPage
  <2>1. Open(storage) /\ UNCHANGED server /\ used' \in [Bound -> Nat]
    BY <1>1, <1>3 DEF ReloadPage, Spend, Bound
  <2>2. storage.token # 0 => storage.user = Owner(storage.token)
    BY DEF SessionInv, SessionOwnsToken
  <2> QED
    BY <1>1, <2>1, <2>2, OpenKeeps
<1> QED
  BY <1>2, <1>3

\* A token expires, or an account is closed.
LEMMA ServerSideKeeps ==
  ASSUME SessionInv, (\E t \in Token : Expire(t)) \/ (\E u \in User : Deactivate(u))
  PROVE  SessionInv'
<1>1. /\ UNCHANGED <<issued, storage, page, loads, calls, used>>
      /\ expired' \subseteq Token /\ active' \subseteq User
  BY TypeParts DEF SessionInv, Expire, Deactivate
<1> QED
  BY <1>1 DEF SessionInv, TypeOK, Token, SessionOwnsToken, Owner, CallsOK, LoadsOK, ShownOK, Screen

---------------------------------------------------------------------------
(* The answers                                                             *)

\* A request leaves, and nothing else happens but a sign-out of the tab.
LEMMA RequestLeaves ==
  ASSUME SessionInv, NEW c \in calls, c.kind # "me", calls' = calls \ {c},
         storage' = storage \/ storage' = SignedOut,
         UNCHANGED <<server, page, loads>>,
         used' \in [Bound -> Nat], used'.loads = used.loads
  PROVE  SessionInv'
<1>1. /\ page \in Pages /\ loads \subseteq Loads
  BY TypeParts DEF SessionInv
<1>2. ShownOK'
  BY DEF SessionInv, ShownOK, Screen
<1>3. /\ \A l, m \in loads : l = m
      /\ \A l \in loads : l.stage # "boards" => l.board = page.session
  BY DEF SessionInv, LoadsOK
<1>4. \A d \in calls' : d \in calls /\ d.kind # "me"
  BY DEF SessionInv, CallsOK
<1> QED
  BY <1>1, <1>2, <1>3, <1>4, AnswersKeep

\* A load fails with a request of it.
LEMMA LoadFails ==
  ASSUME SessionInv, NEW c \in calls, c.kind # "me", calls' = calls \ {c},
         storage' = storage \/ storage' = SignedOut, UNCHANGED server,
         loads' = {}, page' = FailedPage(page),
         used' \in [Bound -> Nat], used'.loads = used.loads
  PROVE  SessionInv'
<1>1. /\ page' \in Pages /\ page'.session = page.session /\ page'.error
  BY TypeParts, PageParts DEF SessionInv
<1>2. ShownOK'
  BY <1>1, BoardScreen DEF ShownOK
<1>3. \A d \in calls' : d \in calls /\ d.kind # "me"
  BY DEF SessionInv, CallsOK
<1> QED
  BY <1>1, <1>2, <1>3, AnswersKeep

\* The log-in is answered.
LEMMA LoginAnsweredKeeps ==
  ASSUME SessionInv, NEW c \in calls, LoginAnswered(c)
  PROVE  SessionInv'
<1>1. /\ issued \in Seq(User) /\ expired \subseteq Token /\ active \subseteq User
      /\ storage \in Storages /\ page \in Pages /\ calls \subseteq Calls
      /\ \A d \in calls : d.kind # "login" => d.token \in Token
      /\ used \in [Bound -> Nat]
  BY TypeParts DEF SessionInv
<1>2. c.kind = "login"
  BY DEF LoginAnswered
<1>3. /\ loads = {} /\ page.session = None
      /\ \A d \in calls \ {c} : d.kind # "login"
  BY <1>2 DEF SessionInv, CallsOK, LoadsOK
<1>4. \A d \in calls : d.kind # "me"
  BY <1>2 DEF SessionInv, CallsOK
<1>5. CASE Admitted(c.user) /\ issued' = Append(issued, c.user)
  <2> DEFINE s == SetSession(Len(issued) + 1, c.user)
             p == [page EXCEPT !.session = StoredSession(s)]
  <2>1. /\ storage' = s /\ expired' = expired /\ active' = active
        /\ StartLoad("boards", None, p, s, calls \ {c})
    BY <1>5, <1>2 DEF LoginAnswered
  <2>2. c.user \in User
    BY <1>1, <1>5 DEF Admitted
  <2>3. /\ issued' \in Seq(User) /\ Len(issued') = Len(issued) + 1
        /\ issued'[Len(issued) + 1] = c.user
        /\ Len(issued) \in Nat
    BY <1>1, <1>5, <2>2, AppendProperties
  <2>4. Token \subseteq Token' /\ Len(issued) + 1 \in Token'
    BY <2>3 DEF Token
  <2>5. s.token = Len(issued) + 1 /\ s.user = c.user /\ s.token # 0 /\ s \in Storages'
    BY <2>2, <2>3, <2>4 DEF SetSession, Storages
  <2>6. p \in Pages /\ p.session = c.user /\ s.user = issued'[s.token]
    BY <1>1, <2>2, <2>3, <2>5 DEF Pages, StoredSession, AuthUser, Owner
  <2> HIDE DEF s, p
  <2>7. calls \ {c} \subseteq Calls'
    BY <1>1, <2>4 DEF Calls
  <2>8. \A d \in calls \ {c} : d.kind \in {"part", "mutation"} /\ d.token \in Token'
    BY <1>1, <1>3, <1>4, <2>4 DEF Calls
  <2>9. \A d \in calls \ {c} : d.load <= used.loads /\ (d.kind # "part" => d.load = 0)
    BY DEF SessionInv, CallsOK
  <2>10. s.token # 0 => s.user = issued'[s.token] /\ p.session = s.user
    BY <2>5, <2>6
  <2>11. /\ page' \in Pages /\ loads' \subseteq Loads /\ calls' \subseteq Calls'
         /\ \A d \in calls' : d.token \in Token'
         /\ used' \in [Bound -> Nat]
         /\ SessionOwnsToken' /\ CallsOK' /\ LoadsOK' /\ ShownOK'
    BY <1>1, <1>3, <2>1, <2>3, <2>5, <2>6, <2>7, <2>8, <2>9, <2>10, StartLoadKeeps
  <2>12. TypeOK'
    BY <1>1, <2>1, <2>3, <2>4, <2>5, <2>11 DEF TypeOK, Pages, Loads, Calls, Storages
  <2> QED
    BY <2>11, <2>12 DEF SessionInv
<1>6. CASE calls' = calls \ {c} /\ UNCHANGED <<server, storage, page, loads, used>>
  <2>1. c.kind # "me" /\ used' \in [Bound -> Nat] /\ used'.loads = used.loads
    BY <1>1, <1>2, <1>6
  <2> QED
    BY <1>6, <2>1, RequestLeaves
<1> QED
  BY <1>5, <1>6 DEF LoginAnswered

\* fetchMe is refused or gets no answer: nothing is left under way.
LEMMA RefusedKeeps ==
  ASSUME SessionInv, NEW c \in calls, c.kind = "me", Refused(c), UNCHANGED server,
         used' \in [Bound -> Nat]
  PROVE  SessionInv'
<1>1. /\ storage' = SignedOut /\ loads' = loads /\ calls' = calls \ {c}
      /\ page' = [page EXCEPT !.session = None, !.error = FALSE, !.bootstrapping = FALSE]
  BY DEF Refused
<1>2. loads' = {} /\ calls' = {}
  BY <1>1 DEF SessionInv, CallsOK
<1>3. page' \in Pages /\ page'.session = None
  BY <1>1, TypeParts DEF SessionInv, Pages
<1>4. issued' = issued /\ expired' = expired /\ active' = active
  BY DEF server
<1>5. storage' \in Storages /\ storage'.token = 0
  BY <1>1 DEF SignedOut, Storages
<1>6. TypeOK'
  BY <1>2, <1>3, <1>4, <1>5, TypeParts DEF SessionInv, TypeOK, Pages, Storages, Token
<1>7. ShownOK'
  BY <1>3, BoardScreen DEF ShownOK
<1> QED
  BY <1>2, <1>5, <1>6, <1>7 DEF SessionInv, SessionOwnsToken, CallsOK, LoadsOK

\* fetchMe is answered.
LEMMA MeAnsweredKeeps ==
  ASSUME SessionInv, NEW c \in calls, MeAnswered(c)
  PROVE  SessionInv'
<1>1. /\ issued \in Seq(User) /\ expired \subseteq Token /\ active \subseteq User
      /\ storage \in Storages /\ page \in Pages /\ calls \subseteq Calls
      /\ used \in [Bound -> Nat] /\ c.kind = "me" /\ UNCHANGED server
  BY TypeParts DEF SessionInv, MeAnswered
<1>2. /\ loads = {} /\ calls \ {c} = {} /\ c.token \in Token
      /\ storage.token # 0 => storage.token = c.token
  BY <1>1, TypeParts DEF SessionInv, CallsOK
<1>3. CASE Refused(c) /\ UNCHANGED used
  BY <1>1, <1>3, RefusedKeeps
<1>4. CASE ~Unauthorized(c) /\ ~(Refused(c) /\ UNCHANGED used)
  <2> DEFINE me == Owner(c.token)
             s  == IF storage.token = 0 THEN storage ELSE SetSession(storage.token, me)
             p  == [page EXCEPT !.session = me]
  <2>1. storage' = s /\ StartLoad("boards", None, p, s, {})
    BY <1>2, <1>4 DEF MeAnswered
  <2>2. issued' = issued /\ expired' = expired /\ active' = active
    BY <1>1 DEF server
  <2>3. me \in User
    BY <1>1, <1>2, OwnersAreUsers
  <2>4. /\ s \in Storages /\ p \in Pages /\ p.session = me
        /\ s.token = storage.token /\ (s.token # 0 => s.user = me)
    BY <1>1, <2>3 DEF SetSession, Storages, Pages
  <2>5. s.token # 0 => s.user = issued'[s.token] /\ p.session = s.user
    BY <1>2, <2>2, <2>4 DEF Owner
  <2> HIDE DEF s, p, me
  <2>6. s \in Storages' /\ issued' \in Seq(User)
    BY <1>1, <2>2, <2>4 DEF Storages, Token
  <2>7. /\ page' \in Pages /\ loads' \subseteq Loads /\ calls' \subseteq Calls'
        /\ \A d \in calls' : d.token \in Token'
        /\ used' \in [Bound -> Nat]
        /\ SessionOwnsToken' /\ CallsOK' /\ LoadsOK' /\ ShownOK'
    BY <1>1, <1>2, <2>1, <2>4, <2>5, <2>6, StartLoadKeeps
  <2>8. TypeOK'
    BY <1>1, <2>1, <2>2, <2>4, <2>7 DEF TypeOK, Pages, Loads, Calls, Storages, Token
  <2> QED
    BY <2>7, <2>8 DEF SessionInv
<1> QED
  BY <1>3, <1>4 DEF MeAnswered

\* A part of a load is answered.
LEMMA PartAnsweredKeeps ==
  ASSUME SessionInv, NEW c \in calls, PartAnswered(c)
  PROVE  SessionInv'
<1>1. /\ c.kind = "part" /\ UNCHANGED <<server, used>>
      /\ storage' = storage \/ storage' = SignedOut
  BY DEF PartAnswered, StorageAfter
<1>2. /\ issued \in Seq(User) /\ storage \in Storages /\ page \in Pages
      /\ calls \subseteq Calls /\ c.token \in Token /\ loads \subseteq Loads
      /\ used' \in [Bound -> Nat] /\ used'.loads = used.loads /\ c.kind # "me"
  BY <1>1, TypeParts DEF SessionInv
<1>3. CASE LoadOf(c) = {} /\ calls' = calls \ {c} /\ UNCHANGED <<page, loads>>
  BY <1>1, <1>2, <1>3, RequestLeaves
<1>4. ASSUME NEW l \in LoadOf(c)
      PROVE  /\ loads = {l} /\ l.id = c.load /\ Owner(c.token) = page.session
             /\ page.session \in User
             /\ l.stage # "boards" => l.board = page.session
  BY <1>2, <1>4, OwnersAreUsers DEF LoadOf, SessionInv, CallsOK, LoadsOK
<1>5. \A d \in calls \ {c} : d \in calls /\ d.kind # "me"
  BY <1>2 DEF SessionInv, CallsOK
<1>6. ASSUME NEW l \in LoadOf(c), loads' = loads \ {l}, page' = FailedPage(page),
             calls' = calls \ {c}
      PROVE  SessionInv'
  <2>1. loads' = {}
    BY <1>4, <1>6
  <2> QED
    BY <1>1, <1>2, <1>6, <2>1, LoadFails
<1>7. ASSUME NEW l \in LoadOf(c), l.left > 1,
             loads' = (loads \ {l}) \cup {[l EXCEPT !.left = @ - 1]},
             calls' = calls \ {c}, UNCHANGED page
      PROVE  SessionInv'
  <2> DEFINE m == [l EXCEPT !.left = @ - 1]
  <2>0. l \in Loads /\ l.left \in 1 .. Width /\ l.left - 1 \in 1 .. Width
    BY <1>2, <1>4, <1>7, UsersDiffer DEF Loads
  <2>1. m \in Loads /\ m.id = l.id /\ m.stage = l.stage /\ m.board = l.board
    BY <2>0 DEF Loads
  <2> HIDE DEF m
  <2>2. loads' = {m} /\ l \in loads
    BY <1>4, <1>7 DEF m
  <2>3. ShownOK'
    BY <1>7 DEF SessionInv, ShownOK, Screen
  <2>4. /\ \A a, b \in loads' : a = b
        /\ \A a \in loads' : \E b \in loads : a.id = b.id
        /\ \A a \in loads' : a.stage # "boards" => a.board = page.session
    BY <1>4, <2>1, <2>2
  <2> QED
    BY <1>1, <1>2, <1>5, <1>7, <2>1, <2>2, <2>3, <2>4, AnswersKeep
<1>8. ASSUME NEW l \in LoadOf(c), Found(c, l), l.stage # "cards", MaySend(storage),
             NEW board, board = (IF l.stage = "boards" THEN Owner(c.token) ELSE l.board),
             NEW more, more = Load(l.id, NextStage(l.stage), board),
             loads' = (loads \ {l}) \cup {more},
             calls' = (calls \ {c}) \cup PartsOf(more, storage), UNCHANGED page
      PROVE  SessionInv'
  <2>1. board = page.session /\ board \in User \cup {Seed, None} /\ l \in loads
    BY <1>4, <1>8
  <2>2. l.id \in Nat /\ NextStage(l.stage) \in {"boards", "parts", "cards"} /\ l.id <= used.loads
    BY <1>2, <2>1 DEF Loads, NextStage, SessionInv, LoadsOK
  <2>3. more \in Loads /\ more.id = l.id /\ more.board = board
    BY <1>8, <2>1, <2>2, LoadParts
  <2>4. loads' = {more}
    BY <1>4, <1>8
  <2>5. ShownOK'
    BY <1>8 DEF SessionInv, ShownOK, Screen
  <2>6. storage.token \in Token /\ Owner(storage.token) = page.session
    BY <1>2, <1>8 DEF MaySend, Storages, SessionInv, SessionOwnsToken
  <2>7. \A d \in PartsOf(more, storage) :
          /\ d \in Calls /\ d.kind = "part" /\ d.token \in Token
          /\ d.load <= used.loads /\ Owner(d.token) = page.session
    BY <1>2, <2>2, <2>3, <2>6, PartsParts
  <2>8. \A d \in calls' :
          \/ d \in calls /\ d.kind # "me"
          \/ /\ d \in Calls /\ d.kind = "part" /\ d.token \in Token
             /\ d.load <= used.loads /\ Owner(d.token) = page.session
    BY <1>5, <1>8, <2>7
  <2>9. /\ \A a, b \in loads' : a = b
        /\ \A a \in loads' : \E b \in loads : a.id = b.id
        /\ \A a \in loads' : a.stage # "boards" => a.board = page.session
        /\ loads' \subseteq Loads
    BY <2>1, <2>3, <2>4
  <2> QED
    BY <1>1, <1>2, <1>8, <2>5, <2>8, <2>9, AnswersKeep
<1>9. ASSUME NEW l \in LoadOf(c), l.stage = "cards",
             loads' = loads \ {l}, page' = HydratedPage(page, l.board), calls' = calls \ {c}
      PROVE  SessionInv'
  <2>1. l.board = page.session /\ l.board \in User \cup {Seed} /\ loads' = {}
    BY <1>4, <1>9
  <2>2. page' \in Pages /\ page'.session = page.session /\ page'.board = page.session
    BY <1>2, <1>9, <2>1, PageParts
  <2>3. ShownOK'
    BY <2>2 DEF ShownOK
  <2> QED
    BY <1>1, <1>2, <1>5, <1>9, <2>1, <2>2, <2>3, AnswersKeep
<1> QED
  BY <1>3, <1>6, <1>7, <1>8, <1>9 DEF PartAnswered

\* A change is answered.
LEMMA MutationAnsweredKeeps ==
  ASSUME SessionInv, NEW c \in calls, MutationAnswered(c)
  PROVE  SessionInv'
<1>1. used' \in [Bound -> Nat] /\ used'.loads = used.loads
  BY TypeParts DEF SessionInv, MutationAnswered
<1>2. /\ c.kind # "me" /\ calls' = calls \ {c} /\ UNCHANGED <<server, page, loads>>
      /\ storage' = storage \/ storage' = SignedOut
  BY DEF MutationAnswered, StorageAfter
<1> QED
  BY <1>1, <1>2, RequestLeaves

\* A request gets no answer.
LEMMA NoAnswerKeeps ==
  ASSUME SessionInv, NEW c \in calls, NoAnswer(c)
  PROVE  SessionInv'
<1>1. used' \in [Bound -> Nat] /\ used'.loads = used.loads /\ UNCHANGED server
  BY TypeParts DEF SessionInv, NoAnswer, Spend, Bound
<1>2. CASE c.kind = "me" /\ Refused(c)
  BY <1>1, <1>2, RefusedKeeps
<1>3. CASE c.kind # "me" /\ calls' = calls \ {c} /\ UNCHANGED storage
           /\ loads' = loads \ LoadOf(c)
           /\ page' = (IF LoadOf(c) = {} THEN page ELSE FailedPage(page))
  <2>1. CASE LoadOf(c) = {}
    <3>1. UNCHANGED <<server, page, loads>>
      BY <1>1, <1>3, <2>1
    <3> QED
      BY <1>1, <1>3, <3>1, RequestLeaves
  <2>2. CASE LoadOf(c) # {}
    <3>1. loads' = {}
      BY <1>3, <2>2 DEF LoadOf, SessionInv, LoadsOK
    <3> QED
      BY <1>1, <1>3, <2>2, <3>1, LoadFails
  <2> QED
    BY <2>1, <2>2
<1> QED
  BY <1>2, <1>3 DEF NoAnswer

---------------------------------------------------------------------------
(* Theorems                                                                *)

\* The invariant holds at first.
LEMMA SessionInvInitially == Init => SessionInv
<1> SUFFICES ASSUME Init PROVE SessionInv
  OBVIOUS
<1>1. /\ issued = <<>> /\ expired = {} /\ active = User /\ storage = SignedOut
      /\ page = FreshPage(SignedOut) /\ loads = {} /\ calls = {}
      /\ used = [b \in Bound |-> 0]
  BY DEF Init
<1>2. /\ page = [session |-> None, board |-> Seed, loading |-> FALSE, error |-> FALSE,
                 bootstrapping |-> FALSE]
      /\ storage.token = 0 /\ storage \in Storages
  BY <1>1 DEF FreshPage, StoredSession, SignedOut, Storages
<1>3. page \in Pages /\ page.session = None
  BY <1>2 DEF Pages
<1>4. TypeOK
  BY <1>1, <1>2, <1>3, TypeParts
<1>5. ShownOK
  BY <1>3, BoardScreen DEF ShownOK
<1> QED
  BY <1>1, <1>2, <1>4, <1>5 DEF SessionInv, SessionOwnsToken, CallsOK, LoadsOK

\* Every step of the session keeps it.
LEMMA SessionInvKept == SessionInv /\ [Next]_vars => SessionInv'
<1> SUFFICES ASSUME SessionInv, [Next]_vars PROVE SessionInv'
  OBVIOUS
<1>1. ASSUME NEW u \in User, SubmitLogin(u) PROVE SessionInv'
  BY <1>1, SubmitLoginKeeps
<1>2. CASE \E u \in User : Deactivate(u)
  BY <1>2, ServerSideKeeps
<1>3. CASE Mutate
  BY <1>3, MutateKeeps
<1>4. CASE Refetch
  BY <1>4, RefetchKeeps
<1>5. CASE Retry
  BY <1>5, RetryKeeps
<1>6. CASE SignOut
  BY <1>6, SignOutKeeps
<1>7. CASE SignOutAndReload \/ ReloadPage
  BY <1>7, ReopeningKeeps
<1>8. ASSUME NEW c \in calls, Answer(c) PROVE SessionInv'
  BY <1>8, LoginAnsweredKeeps, MeAnsweredKeeps, PartAnsweredKeeps, MutationAnsweredKeeps DEF Answer
<1>9. ASSUME NEW c \in calls, NoAnswer(c) PROVE SessionInv'
  BY <1>9, NoAnswerKeeps
<1>10. CASE \E t \in Token : Expire(t)
  BY <1>10, ServerSideKeeps
<1>11. CASE UNCHANGED vars
  BY <1>11 DEF vars, SessionInv, TypeOK, Token, SessionOwnsToken, Owner, CallsOK, LoadsOK,
               ShownOK, Screen
<1> QED
  BY <1>1, <1>2, <1>3, <1>4, <1>5, <1>6, <1>7, <1>8, <1>9, <1>10, <1>11 DEF Next

\* So it holds throughout.
LEMMA SessionInvHolds == Spec => []SessionInv
  BY SessionInvInitially, SessionInvKept, PTL DEF Spec

\* Every request under way was sent with a token the server issued, and every
\* load is of a board of the organisation (api/http.ts, AuthGate.tsx).
THEOREM SessionTypes == Spec => []TypeOK
<1>1. SessionInv => TypeOK
  BY DEF SessionInv
<1> QED
  BY <1>1, SessionInvHolds, PTL

\* fetchMe never writes one user's profile beside another's token, whatever
\* else is answered meanwhile (authApi.ts:44-58).
THEOREM TokenIsTheUsers == Spec => []SessionOwnsToken
<1>1. SessionInv => SessionOwnsToken
  BY DEF SessionInv
<1> QED
  BY <1>1, SessionInvHolds, PTL

\* No answer of a former session, however late, puts another user's board on
\* the screen, and loads do not race (AuthGate.tsx:79-119).
THEOREM BoardIsOwn == Spec => []BoardIsTheSessions
<1>1. ASSUME SessionInv PROVE BoardIsTheSessions
  BY <1>1, ScreenTells DEF SessionInv, LoadsOK, ShownOK, BoardIsTheSessions
<1> QED
  BY <1>1, SessionInvHolds, PTL

---------------------------------------------------------------------------
(* The moves of a board view                                             *)

\* A request has a card, a version and a past.
Fields == {"op", "id", "version", "since"}

\* A move under way is no newer than the latest of its card, and older once
\* something else has moved the card; reloads forget the numbers.
MoveOK(k, versions) ==
  k.op = "move" =>
    /\ k.id \in Id /\ k.version \in Nat
    /\ "reload" \notin k.since =>
         /\ k.version <= versions[k.id]
         /\ k.since # {} => k.version < versions[k.id]

\* The inductive invariant.
VersionsInv ==
  /\ moveVersions \in [Id -> Nat]
  /\ \A k \in requests : Fields \subseteq DOMAIN k /\ MoveOK(k, moveVersions)

\* A request that is sent.
LEMMA SentFields ==
  ASSUME NEW op, NEW id, NEW from, NEW to, NEW index, NEW key, NEW version, NEW before, NEW after
  PROVE  LET y == Sent(op, id, from, to, index, key, version, before, after)
         IN /\ Fields \subseteq DOMAIN y
            /\ y.op = op /\ y.id = id /\ y.version = version /\ y.since = {}
BY DEF Sent, Fields

\* A request that something happened to.
LEMMA Noted ==
  ASSUME NEW k, Fields \subseteq DOMAIN k, NEW what
  PROVE  LET y == [k EXCEPT !.since = @ \cup {what}]
         IN /\ Fields \subseteq DOMAIN y
            /\ y.op = k.op /\ y.id = k.id /\ y.version = k.version
            /\ y.since = k.since \cup {what}
BY DEF Fields

\* A request that was answered, or failed.
LEMMA Replied ==
  ASSUME NEW k, Fields \subseteq DOMAIN k, NEW is, NEW c, NEW key
  PROVE  LET y == [k EXCEPT !.is = is, !.card = c, !.minted = key]
         IN /\ Fields \subseteq DOMAIN y
            /\ y.op = k.op /\ y.id = k.id /\ y.version = k.version /\ y.since = k.since
<1> DEFINE a == [k EXCEPT !.is = is]
           b == [a EXCEPT !.card = c]
           y == [k EXCEPT !.is = is, !.card = c, !.minted = key]
<1>1. /\ Fields \subseteq DOMAIN a
      /\ a.op = k.op /\ a.id = k.id /\ a.version = k.version /\ a.since = k.since
  BY DEF Fields
<1>2. /\ Fields \subseteq DOMAIN b
      /\ b.op = a.op /\ b.id = a.id /\ b.version = a.version /\ b.since = a.since
  BY <1>1 DEF Fields
<1>3. y = [b EXCEPT !.minted = key]
  OBVIOUS
<1> HIDE DEF a, b
<1>. QED BY <1>1, <1>2, <1>3 DEF Fields

\* A card moves, by a drag or a frame: its number goes up, and the moves of it
\* under way are told.
LEMMA MovesGoStale ==
  ASSUME VersionsInv, NEW c, NEW what,
         moveVersions' = [moveVersions EXCEPT ![c] = @ + 1],
         NEW k \in Mark(requests, c, what)
  PROVE  Fields \subseteq DOMAIN k /\ MoveOK(k, moveVersions')
<1>1. PICK r \in requests : k = IF r.id = c THEN [r EXCEPT !.since = @ \cup {what}] ELSE r
  BY DEF Mark
<1>2. Fields \subseteq DOMAIN r /\ MoveOK(r, moveVersions) /\ moveVersions \in [Id -> Nat]
  BY DEF VersionsInv
<1>3. \A i \in Id : moveVersions'[i] = IF i = c THEN moveVersions[i] + 1 ELSE moveVersions[i]
  BY <1>2
<1>4. CASE r.id = c
  <2>1. k = [r EXCEPT !.since = @ \cup {what}]
    BY <1>1, <1>4
  <2>2. /\ Fields \subseteq DOMAIN k /\ k.op = r.op /\ k.id = r.id /\ k.version = r.version
        /\ k.since = r.since \cup {what}
    BY <1>2, <2>1, Noted
  <2>3. ASSUME k.op = "move", "reload" \notin k.since
        PROVE  k.version < moveVersions'[k.id]
    <3>1. /\ r.id \in Id /\ r.version \in Nat /\ r.version <= moveVersions[r.id]
          /\ moveVersions[r.id] \in Nat
      BY <1>2, <2>2, <2>3 DEF MoveOK
    <3>2. moveVersions'[r.id] = moveVersions[r.id] + 1
      BY <1>3, <1>4, <3>1
    <3>. QED BY <2>2, <3>1, <3>2
  <2>4. k.op = "move" => /\ k.id \in Id /\ k.version \in Nat
                         /\ moveVersions'[k.id] \in Nat
    BY <1>2, <1>3, <2>2 DEF MoveOK
  <2>. QED BY <2>2, <2>3, <2>4 DEF MoveOK
<1>5. CASE r.id # c
  <2>1. k = r
    BY <1>1, <1>5
  <2>2. r.id \in Id => moveVersions'[r.id] = moveVersions[r.id]
    BY <1>3, <1>5
  <2>. QED BY <1>2, <2>1, <2>2 DEF MoveOK
<1>. QED BY <1>4, <1>5

\* The user drags a card.
LEMMA DragKeepsVersions ==
  ASSUME VersionsInv, NEW c \in Id, NEW from, NEW to, NEW i, MoveCard(c, from, to, i)
  PROVE  VersionsInv'
<1>1. moveVersions \in [Id -> Nat]
  BY DEF VersionsInv
<1>2. PICK index, before, after :
        /\ moveVersions' = [moveVersions EXCEPT ![c] = moveVersions[c] + 1]
        /\ requests' = Mark(requests, c, "mine") \cup
             {Sent("move", c, from, to, index, cards[c], moveVersions[c] + 1, before, after)}
  BY DEF MoveCard
<1> DEFINE k == Sent("move", c, from, to, index, cards[c], moveVersions[c] + 1, before, after)
<1>2a. /\ requests' = Mark(requests, c, "mine") \cup {k}
       /\ k.id = c /\ k.version = moveVersions[c] + 1 /\ k.since = {}
       /\ Fields \subseteq DOMAIN k
  BY <1>2, SentFields
<1> HIDE DEF k
<1>3. MoveOK(k, moveVersions')
  BY <1>1, <1>2, <1>2a DEF MoveOK
<1>4. moveVersions' \in [Id -> Nat]
  BY <1>1, <1>2
<1>5. ASSUME NEW r \in Mark(requests, c, "mine")
      PROVE  Fields \subseteq DOMAIN r /\ MoveOK(r, moveVersions')
  BY <1>2, MovesGoStale
<1>. QED BY <1>2a, <1>3, <1>4, <1>5 DEF VersionsInv

\* A request is answered or fails.
LEMMA ReplyKeepsVersions ==
  ASSUME VersionsInv, NEW k \in requests, NEW is, NEW c, NEW key,
         Reply(k, is, c, key), UNCHANGED moveVersions
  PROVE  VersionsInv'
<1> DEFINE y == [k EXCEPT !.is = is, !.card = c, !.minted = key]
<1>1. requests' = (requests \ {k}) \cup {y}
  BY DEF Reply
<1>2. /\ Fields \subseteq DOMAIN y
      /\ y.op = k.op /\ y.id = k.id /\ y.version = k.version /\ y.since = k.since
  BY Replied DEF VersionsInv
<1> HIDE DEF y
<1>3. MoveOK(y, moveVersions)
  BY <1>2 DEF VersionsInv, MoveOK
<1>. QED BY <1>1, <1>2, <1>3 DEF VersionsInv

\* The next frame is applied.
LEMMA FrameKeepsVersions ==
  ASSUME VersionsInv, ApplyFrame
  PROVE  VersionsInv'
<1>1. PICK f : CardMoved(f) \/ CardDeleted(f) \/ ListDeleted(f) \/ ContentChanged(f)
  BY DEF ApplyFrame
<1>2. CASE UNCHANGED <<moveVersions, requests>>
  BY <1>2 DEF VersionsInv
<1>3. CASE Stale(f)
  <2>1. /\ moveVersions' = [moveVersions EXCEPT ![f.card] = @ + 1]
        /\ requests' = Mark(requests, f.card, "frame")
    BY <1>3 DEF Stale
  <2>2. moveVersions' \in [Id -> Nat]
    <3>1. moveVersions \in [Id -> Nat]
      BY DEF VersionsInv
    <3>2. CASE f.card \in Id
      BY <2>1, <3>1, <3>2
    <3>3. CASE f.card \notin Id
      BY <2>1, <3>1, <3>3
    <3>. QED BY <3>2, <3>3
  <2>. QED BY <2>1, <2>2, MovesGoStale DEF VersionsInv
<1>. QED BY <1>1, <1>2, <1>3 DEF CardMoved, CardDeleted, ListDeleted, ContentChanged

\* The board is loaded again: the numbers start over, and the moves under way
\* have a reload in their past.
LEMMA ReloadKeepsVersions ==
  ASSUME VersionsInv, HydrateBoard
  PROVE  VersionsInv'
<1>1. /\ moveVersions' = [c \in Id |-> 0]
      /\ requests' = {[k EXCEPT !.since = @ \cup {"reload"}] : k \in requests}
  BY DEF HydrateBoard
<1>2. ASSUME NEW r \in requests'
      PROVE  Fields \subseteq DOMAIN r /\ MoveOK(r, moveVersions')
  <2>1. PICK k \in requests : r = [k EXCEPT !.since = @ \cup {"reload"}]
    BY <1>1
  <2>2. /\ Fields \subseteq DOMAIN r /\ r.op = k.op /\ r.id = k.id /\ r.version = k.version
        /\ "reload" \in r.since
    BY <2>1, Noted DEF VersionsInv
  <2>. QED BY <2>2 DEF MoveOK, VersionsInv
<1>. QED BY <1>1, <1>2 DEF VersionsInv

\* The user adds a card.
LEMMA AddKeepsVersions ==
  ASSUME VersionsInv, NEW t, NEW l, AddCard(t, l)
  PROVE  VersionsInv'
<1> DEFINE k == Sent("create", t, l, l, 0, 0, 0, NoCard, NoCard)
<1>1. /\ requests' = requests \cup {k} /\ UNCHANGED moveVersions
      /\ k.op = "create" /\ Fields \subseteq DOMAIN k
  BY SentFields DEF AddCard
<1> HIDE DEF k
<1>. QED BY <1>1 DEF VersionsInv, MoveOK

\* Every step.
LEMMA VersionsStep ==
  ASSUME VersionsInv, [StoreNext]_storeVars
  PROVE  VersionsInv'
<1>1. CASE UNCHANGED <<moveVersions, requests>>
  BY <1>1 DEF VersionsInv
<1>2. ASSUME NEW k \in requests, Serve(k) \/ FailCall(k)
      PROVE  VersionsInv'
  <2>1. UNCHANGED moveVersions
    BY <1>2 DEF Serve, ServeMove, RejectMove, ServeCreate, FailCall, store
  <2>2. \E is, c, key : Reply(k, is, c, key)
    BY <1>2 DEF Serve, ServeMove, RejectMove, ServeCreate, FailCall
  <2>. QED BY <2>1, <2>2, ReplyKeepsVersions
<1>3. ASSUME NEW k \in requests, Settle(k)
      PROVE  VersionsInv'
  BY <1>3 DEF Settle, VersionsInv
<1>4. CASE Emit \/ PeerMove \/ PeerDelete \/ PeerCreate \/ PeerDeleteList
  BY <1>1, <1>4 DEF Emit, PeerMove, PeerDelete, PeerCreate, PeerDeleteList, store
<1>5. ASSUME NEW n \in 1 .. Len(frames), Jump(n)
      PROVE  VersionsInv'
  BY <1>1, <1>5 DEF Jump
<1>6. CASE RefetchBoard \/ FetchFails \/ \E l \in DOMAIN fetch : ReadList(l)
  BY <1>1, <1>6 DEF RefetchBoard, FetchFails, ReadList, store
<1>7. CASE UNCHANGED storeVars
  BY <1>1, <1>7 DEF storeVars, store
<1>. QED BY <1>2, <1>3, <1>4, <1>5, <1>6, <1>7, DragKeepsVersions, AddKeepsVersions,
            FrameKeepsVersions, ReloadKeepsVersions DEF StoreNext

\* The inductive invariant holds throughout.
LEMMA VersionsInvariant == StoreSpec => []VersionsInv
<1>1. StoreInit => VersionsInv
  BY DEF StoreInit, VersionsInv
<1>. QED BY <1>1, VersionsStep, PTL DEF StoreSpec

\* A move that failed and is not the latest of its card leaves the lists alone
\* (useBoardStore.ts:333-371), whatever was dragged, answered and announced
\* before, unless the board was loaded again meanwhile.
THEOREM StaleMovesAreHarmless == StoreSpec => StaleMoveLeavesAlone
<1> DEFINE Alone ==
             \A k \in requests :
               /\ Settle(k) /\ k.op = "move" /\ k.is = "failed"
               /\ k.since # {} /\ "reload" \notin k.since
               => lists' = lists
<1>1. VersionsInv => Alone
  <2> SUFFICES ASSUME VersionsInv, NEW k \in requests,
                      Settle(k), k.op = "move", k.is = "failed",
                      k.since # {}, "reload" \notin k.since
               PROVE  lists' = lists
    OBVIOUS
  <2>1. MoveFailed(k)
    BY DEF Settle, MoveStored, CardCreated, CreateFailed
  <2>2. ~IsLatest(k)
    <3>1. /\ k.id \in Id /\ k.version \in Nat /\ k.version < moveVersions[k.id]
      BY DEF VersionsInv, MoveOK
    <3>. QED BY <3>1 DEF IsLatest, VersionsInv
  <2>. QED BY <2>1, <2>2 DEF MoveFailed
<1>. QED BY <1>1, VersionsInvariant, PTL DEF StaleMoveLeavesAlone

\* The least of some numbers.
LEMMA LeastOf ==
  ASSUME NEW S \in SUBSET Nat, S # {}
  PROVE  Min(S) \in S /\ \A n \in S : Min(S) <= n
<1>1. PICK x \in S : \A y \in S : ~(<<y, x>> \in OpToRel(<, Nat))
  BY NatLessThanWellFounded, WFMin
<1>2. \A y \in S : ~(y < x)
  BY <1>1 DEF OpToRel
<1>3. \A y \in S : x <= y
  BY <1>2
<1>. QED BY <1>3 DEF Min

\* A finite set can be put in the order of its keys: number its members, and
\* place each one by how many come no later than it.
LEMMA SortedExists ==
  ASSUME NEW S, IsFiniteSet(S), NEW key \in [S -> Nat]
  PROVE  \E f \in [1 .. Cardinality(S) -> S] :
           /\ ToSet(f) = S /\ IsInjective(f)
           /\ \A i, j \in DOMAIN f : i < j => key[f[i]] <= key[f[j]]
<1> DEFINE n == Cardinality(S)
           N == 1 .. n
<1>1. n \in Nat /\ ExistsBijection(N, S)
  BY FS_CardinalityType
<1>2. PICK g \in [N -> S] : IsInjective(g) /\ \A x \in S : \E i \in N : g[i] = x
  BY <1>1 DEF ExistsBijection, Bijection, Injection, Surjection
<1>3. \A i, j \in N : g[i] = g[j] => i = j
  BY <1>2 DEF IsInjective
<1> DEFINE B(i, j) == key[g[i]] < key[g[j]] \/ (key[g[i]] = key[g[j]] /\ i <= j)
           Upto(j) == {i \in N : B(i, j)}
           rank == [j \in N |-> Cardinality(Upto(j))]
<1>4. IsFiniteSet(N) /\ Cardinality(N) = n
  BY <1>1, FS_Interval
<1>5. \A j \in N : key[g[j]] \in Nat
  BY <1>2
<1>6. \A j \in N : IsFiniteSet(Upto(j)) /\ Cardinality(Upto(j)) \in N
  <2> SUFFICES ASSUME NEW j \in N PROVE IsFiniteSet(Upto(j)) /\ Cardinality(Upto(j)) \in N
    OBVIOUS
  <2>1. Upto(j) \in SUBSET N /\ j \in Upto(j)
    BY <1>1, <1>5
  <2>2. IsFiniteSet(Upto(j)) /\ Cardinality(Upto(j)) <= n
    BY <1>4, <2>1, FS_Subset
  <2>3. Cardinality(Upto(j)) \in Nat /\ Cardinality(Upto(j)) # 0
    BY <2>1, <2>2, FS_CardinalityType, FS_EmptySet
  <2>. QED BY <1>1, <2>2, <2>3
<1>7. ASSUME NEW i \in N, NEW j \in N, i # j, B(i, j)
      PROVE  rank[i] < rank[j]
  <2>1. Upto(i) \in SUBSET Upto(j) /\ j \in Upto(j) /\ j \notin Upto(i)
    BY <1>1, <1>5, <1>7
  <2>2. Cardinality(Upto(i)) <= Cardinality(Upto(j)) /\ Cardinality(Upto(j)) # Cardinality(Upto(i))
    BY <1>6, <2>1, FS_Subset
  <2>3. Cardinality(Upto(i)) \in N /\ Cardinality(Upto(j)) \in N
    BY <1>6
  <2> HIDE DEF Upto
  <2>. QED BY <1>1, <2>2, <2>3
<1>8. \A i, j \in N : B(i, j) \/ B(j, i)
  BY <1>1, <1>5
<1> HIDE DEF B
<1>9. rank \in [N -> N]
  BY <1>6
<1> HIDE DEF rank
<1>10. \A i, j \in N : rank[i] = rank[j] => i = j
  <2> SUFFICES ASSUME NEW i \in N, NEW j \in N, rank[i] = rank[j], i # j PROVE FALSE
    OBVIOUS
  <2>1. rank[i] \in Nat /\ rank[j] \in Nat
    BY <1>1, <1>9
  <2>2. CASE B(i, j)
    <3>1. rank[i] < rank[j]
      BY <1>7, <2>2
    <3>. QED BY <2>1, <3>1
  <2>3. CASE B(j, i)
    <3>1. rank[j] < rank[i]
      BY <1>7, <2>3
    <3>. QED BY <2>1, <3>1
  <2>. QED BY <1>8, <2>2, <2>3
<1>11. rank \in Surjection(N, N)
  <2>1. rank \in Injection(N, N)
    BY <1>9, <1>10 DEF Injection, IsInjective
  <2>. QED BY <1>4, <2>1, FS_Injection
<1>12. \A m \in N : \E i \in N : rank[i] = m
  BY <1>11 DEF Surjection
<1> DEFINE at == [m \in N |-> CHOOSE i \in N : rank[i] = m]
           f == [m \in N |-> g[at[m]]]
<1>13. \A m \in N : at[m] \in N /\ rank[at[m]] = m
  BY <1>12
<1>14. \A i \in N : at[rank[i]] = i
  BY <1>9, <1>10, <1>13
<1> HIDE DEF at
<1>15. f \in [N -> S]
  BY <1>2, <1>13
<1>16. ToSet(f) = S
  <2>1. \A x \in S : \E m \in N : f[m] = x
    <3> SUFFICES ASSUME NEW x \in S PROVE \E m \in N : f[m] = x
      OBVIOUS
    <3>1. PICK i \in N : g[i] = x
      BY <1>2
    <3>2. rank[i] \in N /\ f[rank[i]] = x
      BY <1>9, <1>14, <3>1
    <3>. QED BY <3>2
  <2>. QED BY <1>15, <2>1 DEF ToSet
<1>17. IsInjective(f)
  <2>1. ASSUME NEW a \in N, NEW b \in N, f[a] = f[b]
        PROVE  a = b
    BY <1>3, <1>13, <2>1
  <2>. QED BY <2>1 DEF IsInjective
<1>18. ASSUME NEW a \in N, NEW b \in N, a < b
       PROVE  key[f[a]] <= key[f[b]]
  <2>1. rank[at[a]] = a /\ rank[at[b]] = b /\ at[a] \in N /\ at[b] \in N
    BY <1>13
  <2>2. ~B(at[b], at[a])
    <3>1. a \in Nat /\ b \in Nat /\ a # b
      BY <1>1, <1>18
    <3>2. ~(b < a)
      BY <1>18, <3>1
    <3>3. at[a] # at[b]
      BY <2>1, <3>1
    <3>. QED BY <1>7, <2>1, <3>2, <3>3
  <2>3. B(at[a], at[b])
    BY <1>8, <2>1, <2>2
  <2>. QED BY <1>5, <2>1, <2>3 DEF B
<1>. QED BY <1>15, <1>16, <1>17, <1>18

\* The sorted list of a finite set exists, so CHOOSE picks one.
LEMMA SortedWorks ==
  ASSUME NEW S, IsFiniteSet(S), NEW key \in [S -> Nat]
  PROVE  /\ Cardinality(S) \in Nat
         /\ Sorted(S, key) \in [1 .. Cardinality(S) -> S]
         /\ ToSet(Sorted(S, key)) = S /\ IsInjective(Sorted(S, key))
<1>1. Cardinality(S) \in Nat
  BY FS_CardinalityType
<1>. QED BY <1>1, SortedExists DEF Sorted

\* An id is in a sequence; once at most.
Has(s, c) == \E i \in DOMAIN s : s[i] = c
Once(s, c) == \A i, j \in DOMAIN s : s[i] = c /\ s[j] = c => i = j

\* What changes a sequence for one id only leaves the others in it.
Spares(s, t, c) ==
  \A d : d # c => (Has(t, d) <=> Has(s, d)) /\ (Once(s, d) => Once(t, d))

\* A filtered list.
LEMMA WithoutSpares ==
  ASSUME NEW X, NEW s \in Seq(X), NEW e
  PROVE  Without(s, e) \in Seq(X) /\ Spares(s, Without(s, e), e) /\ ~Has(Without(s, e), e)
<1> DEFINE kept == {i \in DOMAIN s : s[i] # e}
           id == [i \in kept |-> i]
           at == Sorted(kept, id)
           n == Cardinality(kept)
           t == Without(s, e)
<1>1. Len(s) \in Nat /\ DOMAIN s = 1 .. Len(s) /\ \A i \in DOMAIN s : s[i] \in X
  BY LenProperties
<1>2. IsFiniteSet(kept) /\ id \in [kept -> Nat]
  <2>1. IsFiniteSet(1 .. Len(s)) /\ kept \in SUBSET (1 .. Len(s))
    BY <1>1, FS_Interval
  <2>. QED BY <2>1, <1>1, FS_Subset
<1>3. n \in Nat /\ at \in [1 .. n -> kept] /\ ToSet(at) = kept /\ IsInjective(at)
  <2> HIDE DEF kept, id
  <2>. QED BY <1>2, SortedWorks
<1>4. t = [m \in 1 .. n |-> s[at[m]]]
  <2>1. t = [m \in DOMAIN at |-> s[at[m]]]
    BY DEF Without
  <2>. QED BY <1>3, <2>1
<1> HIDE DEF at, n, t
<1>5. \A m \in 1 .. n : at[m] \in DOMAIN s /\ s[at[m]] # e
  BY <1>3
<1>6. \A i \in DOMAIN s : s[i] # e => \E m \in 1 .. n : at[m] = i
  BY <1>3 DEF ToSet
<1>7. \A m, o \in 1 .. n : at[m] = at[o] => m = o
  BY <1>3 DEF IsInjective
<1>8. t \in Seq(X) /\ DOMAIN t = 1 .. n
  <2>1. t \in [1 .. n -> X]
    BY <1>1, <1>4, <1>5
  <2>. QED BY <1>3, <2>1, SeqDef
<1>9. ~Has(t, e)
  BY <1>4, <1>5, <1>8 DEF Has
<1>10. ASSUME NEW d, d # e PROVE Has(t, d) <=> Has(s, d)
  <2>1. ASSUME NEW i \in DOMAIN s, s[i] = d PROVE Has(t, d)
    <3>1. PICK m \in 1 .. n : at[m] = i
      BY <1>6, <1>10, <2>1
    <3>. QED BY <1>4, <1>8, <2>1, <3>1 DEF Has
  <2>2. ASSUME NEW m \in 1 .. n, t[m] = d PROVE Has(s, d)
    BY <1>4, <1>5, <2>2 DEF Has
  <2>. QED BY <2>1, <2>2, <1>8 DEF Has
<1>11. ASSUME NEW d, Once(s, d) PROVE Once(t, d)
  BY <1>4, <1>5, <1>7, <1>8, <1>11 DEF Once
<1>. QED BY <1>8, <1>9, <1>10, <1>11 DEF Spares, t

\* The place of an id in a list.
LEMMA IndexIs ==
  ASSUME NEW X, NEW s \in Seq(X), NEW e
  PROVE  /\ IndexOf(s, e) \in 0 .. Len(s)
         /\ Has(s, e) => IndexOf(s, e) \in 1 .. Len(s) /\ s[IndexOf(s, e)] = e
<1> DEFINE I == {i \in 1 .. Len(s) : s[i] = e}
<1>1. Len(s) \in Nat /\ DOMAIN s = 1 .. Len(s)
  BY LenProperties
<1>2. IndexOf(s, e) = IF I # {} THEN Min(I) ELSE 0
  BY DEF IndexOf, SelectInSeq
<1>3. I # {} => Min(I) \in I
  <2>1. I \in SUBSET Nat
    BY <1>1
  <2>. QED BY <2>1, LeastOf
<1>4. Has(s, e) => I # {}
  BY <1>1 DEF Has
<1>. QED BY <1>1, <1>2, <1>3, <1>4

\* A list with the first place of an id cut out.
LEMMA RemoveSpares ==
  ASSUME NEW X, NEW s \in Seq(X), NEW e
  PROVE  /\ RemoveFirst(s, e) \in Seq(X) /\ Spares(s, RemoveFirst(s, e), e)
         /\ Once(s, e) => ~Has(RemoveFirst(s, e), e)
<1>1. Len(s) \in Nat /\ DOMAIN s = 1 .. Len(s) /\ \A i \in DOMAIN s : s[i] \in X
  BY LenProperties
<1>2. CASE ~Has(s, e)
  <2>1. RemoveFirst(s, e) = s
    BY <1>1, <1>2 DEF RemoveFirst, Has
  <2>. QED BY <1>2, <2>1 DEF Spares
<1>3. CASE Has(s, e)
  <2> DEFINE k == IndexOf(s, e)
             a == SubSeq(s, 1, k - 1)
             b == SubSeq(s, k + 1, Len(s))
             t == a \o b
  <2>1. RemoveFirst(s, e) = t
    BY <1>1, <1>3 DEF RemoveFirst, RemoveAt, Has, IndexOf
  <2>2. k \in 1 .. Len(s) /\ s[k] = e
    BY <1>3, IndexIs
  <2> HIDE DEF k
  <2>3. a \in Seq(X) /\ Len(a) = k - 1 /\ \A i \in 1 .. k - 1 : a[i] = s[i]
    <3>1. \A i \in 1 .. k - 1 : s[i] \in X
      BY <1>1, <2>2
    <3>2. 1 \in Int /\ k - 1 \in Int /\ (k - 1) - 1 + 1 = k - 1 /\ (1 <= k - 1 \/ k - 1 = 0)
          /\ \A i \in 1 .. k - 1 : 1 + i - 1 = i
      BY <1>1, <2>2
    <3>3. /\ a \in Seq(X) /\ Len(a) = IF 1 <= k - 1 THEN (k - 1) - 1 + 1 ELSE 0
          /\ \A i \in 1 .. (k - 1) - 1 + 1 : a[i] = s[1 + i - 1]
      BY <3>1, <3>2, SubSeqProperties
    <3>. QED BY <3>2, <3>3
  <2>4. b \in Seq(X) /\ Len(b) = Len(s) - k /\ \A i \in 1 .. Len(s) - k : b[i] = s[k + i]
    <3> DEFINE m == k + 1
    <3>1. m \in Int /\ Len(s) \in Int /\ m = k + 1 /\ k <= Len(s) /\ k \in Int
          /\ b = SubSeq(s, m, Len(s)) /\ \A i \in m .. Len(s) : s[i] \in X
      BY <1>1, <2>2
    <3> HIDE DEF m, b
    <3>2. /\ b \in Seq(X) /\ Len(b) = IF m <= Len(s) THEN Len(s) - m + 1 ELSE 0
          /\ \A i \in 1 .. Len(s) - m + 1 : b[i] = s[m + i - 1]
      BY <3>1, SubSeqProperties
    <3>3. Len(s) - m + 1 = Len(s) - k /\ (m <= Len(s) \/ Len(s) - k = 0)
      BY <3>1
    <3>4. ASSUME NEW i \in 1 .. Len(s) - k PROVE b[i] = s[k + i]
      <4>1. m + i - 1 = k + i
        BY <3>1
      <4>. QED BY <3>2, <3>3, <4>1
    <3>. QED BY <3>2, <3>3, <3>4
  <2> HIDE DEF a, b
  <2>5. /\ t \in Seq(X) /\ Len(t) = Len(a) + Len(b)
        /\ \A i \in 1 .. Len(a) + Len(b) : t[i] = IF i <= Len(a) THEN a[i] ELSE b[i - Len(a)]
    BY <2>3, <2>4, ConcatProperties
  <2>6. DOMAIN t = 1 .. Len(t)
    BY <2>5, LenProperties
  <2> HIDE DEF t
  <2>7. DOMAIN t = 1 .. Len(s) - 1
    BY <1>1, <2>2, <2>3, <2>4, <2>5, <2>6
  <2>8. \A i \in 1 .. Len(s) - 1 : t[i] = IF i < k THEN s[i] ELSE s[i + 1]
    <3> SUFFICES ASSUME NEW i \in 1 .. Len(s) - 1 PROVE t[i] = IF i < k THEN s[i] ELSE s[i + 1]
      OBVIOUS
    <3>1. CASE i < k
      <4>1. i \in 1 .. k - 1 /\ i <= k - 1 /\ i \in 1 .. (k - 1) + (Len(s) - k)
        BY <1>1, <2>2, <3>1
      <4>2. t[i] = a[i]
        BY <2>3, <2>4, <2>5, <4>1
      <4>. QED BY <2>3, <3>1, <4>1, <4>2
    <3>2. CASE ~(i < k)
      <4>1. i - (k - 1) \in 1 .. Len(s) - k /\ k + (i - (k - 1)) = i + 1 /\ ~(i <= k - 1)
        BY <1>1, <2>2, <3>2
      <4>2. t[i] = b[i - (k - 1)]
        BY <1>1, <2>2, <2>3, <2>4, <2>5, <4>1
      <4>. QED BY <2>4, <3>2, <4>1, <4>2
    <3>. QED BY <3>1, <3>2
  <2>9. ASSUME NEW d, d # e PROVE Has(t, d) <=> Has(s, d)
    <3>1. ASSUME NEW i \in DOMAIN s, s[i] = d PROVE Has(t, d)
      <4>1. i # k
        BY <2>2, <2>9, <3>1
      <4>2. CASE i < k
        BY <1>1, <2>2, <2>7, <2>8, <3>1, <4>2 DEF Has
      <4>3. CASE i > k
        <5>1. i - 1 \in 1 .. Len(s) - 1 /\ ~(i - 1 < k) /\ (i - 1) + 1 = i
          BY <1>1, <2>2, <4>3
        <5>. QED BY <2>7, <2>8, <3>1, <5>1 DEF Has
      <4>. QED BY <1>1, <2>2, <4>1, <4>2, <4>3
    <3>2. ASSUME NEW i \in DOMAIN t, t[i] = d PROVE Has(s, d)
      BY <1>1, <2>2, <2>7, <2>8, <3>2 DEF Has
    <3>. QED BY <3>1, <3>2 DEF Has
  <2>10. ASSUME NEW d, Once(s, d), NEW i \in DOMAIN t, NEW j \in DOMAIN t, t[i] = d, t[j] = d
         PROVE  i = j
    <3> DEFINE up(n) == IF n < k THEN n ELSE n + 1
    <3>1. \A n \in 1 .. Len(s) - 1 : up(n) \in DOMAIN s /\ t[n] = s[up(n)]
      BY <1>1, <2>2, <2>8
    <3>2. up(i) = up(j)
      BY <2>7, <2>10, <3>1 DEF Once
    <3>. QED BY <1>1, <2>2, <2>7, <3>2
  <2>11. Once(s, e) => ~Has(t, e)
    <3> SUFFICES ASSUME Once(s, e), NEW i \in DOMAIN t, t[i] = e PROVE FALSE
      BY DEF Has
    <3> DEFINE n == IF i < k THEN i ELSE i + 1
    <3>1. n \in DOMAIN s /\ s[n] = e /\ n # k
      BY <1>1, <2>2, <2>7, <2>8
    <3>. QED BY <1>1, <2>2, <3>1 DEF Once
  <2>12. Spares(s, t, e)
    BY <2>9, <2>10 DEF Spares, Once
  <2>. QED BY <2>1, <2>5, <2>11, <2>12
<1>. QED BY <1>2, <1>3

\* A list with an id put in at a place.
LEMMA SpliceSpares ==
  ASSUME NEW X, NEW s \in Seq(X), NEW e \in X, NEW p \in Nat \ {0}
  PROVE  /\ Splice(s, p, e) \in Seq(X) /\ Spares(s, Splice(s, p, e), e)
         /\ Has(Splice(s, p, e), e)
         /\ ~Has(s, e) => Once(Splice(s, p, e), e)
<1> DEFINE k == IF p > Len(s) THEN Len(s) + 1 ELSE p
           a == SubSeq(s, 1, k - 1)
           b == SubSeq(s, k, Len(s))
           u == a \o <<e>>
           t == u \o b
<1>1. Len(s) \in Nat /\ DOMAIN s = 1 .. Len(s) /\ \A i \in DOMAIN s : s[i] \in X
  BY LenProperties
<1>2. Splice(s, p, e) = t
  BY DEF Splice, InsertAt
<1>3. k \in 1 .. Len(s) + 1
  BY <1>1
<1> HIDE DEF k
<1>4. a \in Seq(X) /\ Len(a) = k - 1 /\ \A i \in 1 .. k - 1 : a[i] = s[i]
  <2>1. \A i \in 1 .. k - 1 : s[i] \in X
    BY <1>1, <1>3
  <2>2. 1 \in Int /\ k - 1 \in Int /\ (k - 1) - 1 + 1 = k - 1 /\ (1 <= k - 1 \/ k - 1 = 0)
        /\ \A i \in 1 .. k - 1 : 1 + i - 1 = i
    BY <1>1, <1>3
  <2>3. /\ a \in Seq(X) /\ Len(a) = IF 1 <= k - 1 THEN (k - 1) - 1 + 1 ELSE 0
        /\ \A i \in 1 .. (k - 1) - 1 + 1 : a[i] = s[1 + i - 1]
    BY <2>1, <2>2, SubSeqProperties
  <2>. QED BY <2>2, <2>3
<1>5. b \in Seq(X) /\ Len(b) = Len(s) - k + 1 /\ \A i \in 1 .. Len(s) - k + 1 : b[i] = s[k + i - 1]
  <2>1. \A i \in k .. Len(s) : s[i] \in X
    BY <1>1, <1>3
  <2>2. k \in Int /\ Len(s) \in Int /\ (k <= Len(s) \/ Len(s) - k + 1 = 0)
    BY <1>1, <1>3
  <2>3. /\ b \in Seq(X) /\ Len(b) = IF k <= Len(s) THEN Len(s) - k + 1 ELSE 0
        /\ \A i \in 1 .. Len(s) - k + 1 : b[i] = s[k + i - 1]
    BY <2>1, <2>2, SubSeqProperties
  <2>. QED BY <2>2, <2>3
<1> HIDE DEF a, b
<1>6. /\ u \in Seq(X) /\ Len(u) = k /\ u[k] = e /\ \A i \in 1 .. k - 1 : u[i] = s[i]
  <2>1. u = Append(a, e)
    BY <1>4, AppendIsConcat
  <2>2. /\ u \in Seq(X) /\ Len(u) = Len(a) + 1 /\ u[Len(a) + 1] = e
        /\ \A i \in 1 .. Len(a) : u[i] = a[i]
    BY <1>4, <2>1, AppendProperties
  <2>. QED BY <1>3, <1>4, <2>2
<1> HIDE DEF u
<1>7. /\ t \in Seq(X) /\ Len(t) = Len(u) + Len(b)
      /\ \A i \in 1 .. Len(u) + Len(b) : t[i] = IF i <= Len(u) THEN u[i] ELSE b[i - Len(u)]
  BY <1>5, <1>6, ConcatProperties
<1>8. DOMAIN t = 1 .. Len(t)
  BY <1>7, LenProperties
<1> HIDE DEF t
<1>9. DOMAIN t = 1 .. Len(s) + 1
  BY <1>1, <1>3, <1>5, <1>6, <1>7, <1>8
<1>10. \A i \in 1 .. Len(s) + 1 : t[i] = IF i < k THEN s[i] ELSE IF i = k THEN e ELSE s[i - 1]
  <2> SUFFICES ASSUME NEW i \in 1 .. Len(s) + 1
               PROVE  t[i] = IF i < k THEN s[i] ELSE IF i = k THEN e ELSE s[i - 1]
    OBVIOUS
  <2>1. CASE i <= k
    BY <1>1, <1>3, <1>5, <1>6, <1>7, <2>1
  <2>2. CASE ~(i <= k)
    <3>1. i - k \in 1 .. Len(s) - k + 1 /\ k + (i - k) - 1 = i - 1
      BY <1>1, <1>3, <2>2
    <3>2. t[i] = b[i - k]
      BY <1>1, <1>3, <1>5, <1>6, <1>7, <2>2
    <3>3. b[i - k] = s[i - 1]
      BY <1>5, <3>1
    <3>. QED BY <1>1, <1>3, <2>2, <3>2, <3>3
  <2>. QED BY <2>1, <2>2
<1>11. ASSUME NEW d, d # e PROVE Has(t, d) <=> Has(s, d)
  <2>1. ASSUME NEW i \in DOMAIN s, s[i] = d PROVE Has(t, d)
    <3>1. CASE i < k
      BY <1>1, <1>3, <1>9, <1>10, <2>1, <3>1 DEF Has
    <3>2. CASE ~(i < k)
      <4>1. i + 1 \in 1 .. Len(s) + 1 /\ ~(i + 1 < k) /\ i + 1 # k /\ (i + 1) - 1 = i
        BY <1>1, <1>3, <3>2
      <4>. QED BY <1>9, <1>10, <2>1, <4>1 DEF Has
    <3>. QED BY <3>1, <3>2
  <2>2. ASSUME NEW i \in DOMAIN t, t[i] = d PROVE Has(s, d)
    <3>1. CASE i < k
      BY <1>1, <1>3, <1>9, <1>10, <2>2, <3>1 DEF Has
    <3>2. CASE ~(i < k)
      <4>1. i # k /\ t[i] = s[i - 1]
        BY <1>9, <1>10, <1>11, <2>2, <3>2
      <4>2. i - 1 \in 1 .. Len(s)
        BY <1>1, <1>3, <1>9, <3>2, <4>1
      <4>. QED BY <1>1, <2>2, <4>1, <4>2 DEF Has
    <3>. QED BY <3>1, <3>2
  <2>. QED BY <2>1, <2>2 DEF Has
<1>12. ASSUME NEW d, d # e, Once(s, d), NEW i \in DOMAIN t, NEW j \in DOMAIN t, t[i] = d, t[j] = d
       PROVE  i = j
  <2> DEFINE down(n) == IF n < k THEN n ELSE n - 1
  <2>1. \A n \in 1 .. Len(s) + 1 : n # k => down(n) \in DOMAIN s /\ t[n] = s[down(n)]
    BY <1>1, <1>3, <1>10
  <2>2. i # k /\ j # k
    BY <1>3, <1>9, <1>10, <1>12
  <2>3. down(i) = down(j)
    BY <1>9, <1>12, <2>1, <2>2 DEF Once
  <2>. QED BY <1>1, <1>3, <1>9, <2>2, <2>3
<1>13. Has(t, e)
  BY <1>1, <1>3, <1>9, <1>10 DEF Has
<1>14. ~Has(s, e) => Once(t, e)
  <2> SUFFICES ASSUME ~Has(s, e), NEW i \in DOMAIN t, t[i] = e PROVE i = k
    BY DEF Once
  <2> DEFINE n == IF i < k THEN i ELSE i - 1
  <2>1. i # k => n \in DOMAIN s /\ s[n] = e
    BY <1>1, <1>3, <1>9, <1>10
  <2>. QED BY <2>1 DEF Has
<1>15. Spares(s, t, e)
  BY <1>11, <1>12 DEF Spares, Once
<1>. QED BY <1>2, <1>7, <1>13, <1>14, <1>15

\* Frames about cards name one.
CardFrames == {f \in FrameType : f.type # "list.deleted" => f.card \in Card}
Entries == [card : Card, key : Nat]

\* The rows: a card is in a list that exists, or gone.
RowsTyped ==
  /\ row \in [Card -> [list : List \cup {Nowhere}, key : Nat]]
  /\ open \subseteq List
  /\ \A c \in Card : row[c] # Gone => row[c].list \in open

FramesTyped ==
  /\ unsent \in Seq(CardFrames) /\ frames \in Seq(CardFrames)
  /\ lastSeq \in 0 .. Len(frames)

RequestTyped(k) ==
  /\ k \in CallType
  /\ k.op = "move" => k.index > 0
  /\ k.op = "create" => k.id \in Temp /\ (k.is = "done" => k.card \in Card)

RequestsTyped == \A k \in requests : RequestTyped(k)

ViewTyped ==
  /\ DOMAIN lists \subseteq List /\ \A l \in DOMAIN lists : lists[l] \in Seq(Id)
  /\ DOMAIN cards \subseteq Id /\ \A c \in DOMAIN cards : cards[c] \in Nat
  /\ moveVersions \in [Id -> Nat]
  /\ needsResync \in BOOLEAN
  /\ strayed \subseteq Id
  /\ screen \in {"board", "loading", "error"}
  /\ spent \in [{"mine", "peers", "faults"} -> Nat]

\* A list being refetched is unread, or holds cards with their keys.
FetchTyped ==
  DOMAIN fetch \subseteq List /\ \A l \in DOMAIN fetch : fetch[l] = Unread \/ fetch[l] \in Seq(Entries)

\* What the types rest on.
TypesInv == RowsTyped /\ FramesTyped /\ RequestsTyped /\ ViewTyped /\ FetchTyped

\* The stronger types imply the types of the store.
LEMMA TypesGiveTypes == TypesInv => StoreTypeOK
<1> SUFFICES ASSUME TypesInv PROVE StoreTypeOK
  OBVIOUS
<1>1. unsent \in Seq(FrameType) /\ frames \in Seq(FrameType)
  <2>1. CardFrames \subseteq FrameType
    BY DEF CardFrames
  <2>. QED BY <2>1, SeqMonotonic DEF TypesInv, FramesTyped
<1>2. requests \subseteq CallType
  BY DEF TypesInv, RequestsTyped, RequestTyped
<1>. QED BY <1>1, <1>2 DEF TypesInv, RowsTyped, FramesTyped, ViewTyped, FetchTyped, StoreTypeOK

---------------------------------------------------------------------------
(* Keys *)

\* The cards of a list, in order.
LEMMA ByKeyIs ==
  ASSUME RowsTyped, NEW l
  PROVE  /\ Cardinality(In(l)) \in Nat
         /\ ByKey(l) \in [1 .. Cardinality(In(l)) -> In(l)]
         /\ ToSet(ByKey(l)) = In(l) /\ IsInjective(ByKey(l))
<1> DEFINE key == [c \in In(l) |-> row[c].key]
<1>1. IsFiniteSet(In(l))
  BY StoreAssumption, FS_Subset DEF In
<1>2. key \in [In(l) -> Nat]
  BY DEF RowsTyped, In
<1>3. ByKey(l) = Sorted(In(l), key)
  BY DEF ByKey
<1> HIDE DEF key
<1>. QED BY <1>1, <1>2, <1>3, SortedWorks

\* The cards of a list, and their keys.
LEMMA CardsOfLists ==
  ASSUME RowsTyped, NEW l, NEW c \in In(l)
  PROVE  c \in Card /\ row[c].list = l /\ row[c].key \in Nat
BY DEF RowsTyped, In

\* A card that is not gone is in a list that exists.
LEMMA CardsAreListed ==
  ASSUME RowsTyped, NEW c \in Card, row[c] # Gone
  PROVE  row[c].list \in open /\ row[c].list \in List /\ row[c].list # Nowhere /\ row[c].key \in Nat
BY StoreAssumption DEF RowsTyped

\* The keys that the server gives out are numbers.
LEMMA AppendKeyTyped ==
  ASSUME RowsTyped, NEW l
  PROVE  AppendKey(l) \in Nat
<1>1. CASE In(l) = {}
  BY <1>1 DEF AppendKey, Spacing
<1>2. CASE In(l) # {}
  <2> DEFINE n == Cardinality(In(l))
             s == ByKey(l)
  <2>1. n \in Nat /\ s \in [1 .. n -> In(l)] /\ ToSet(s) = In(l)
    BY ByKeyIs
  <2> HIDE DEF n, s
  <2>2. n # 0
    BY <1>2, <2>1 DEF ToSet
  <2>3. s \in Seq(In(l)) /\ Len(s) = n
    <3>1. s \in Seq(In(l))
      BY <2>1, SeqDef
    <3>2. DOMAIN s = 1 .. Len(s) /\ Len(s) \in Nat
      BY <3>1, LenProperties
    <3>. QED BY <2>1, <3>1, <3>2
  <2>4. Last(s) \in In(l)
    BY <2>1, <2>2, <2>3 DEF Last
  <2>5. row[Last(s)].key \in Nat
    BY <2>4, CardsOfLists
  <2>. QED BY <1>2, <2>5 DEF AppendKey, Spacing, s
<1>. QED BY <1>1, <1>2

\* So is the key between two.
LEMMA KeyBetweenTyped ==
  ASSUME NEW a \in Nat, NEW b \in Nat
  PROVE  KeyBetween(a, b) \in Nat
<1>1. (a + b) \div 2 \in Nat
  OBVIOUS
<1>. QED BY <1>1 DEF KeyBetween, Spacing

\* So is the key of a neighbour.
LEMMA KeyOfTyped ==
  ASSUME RowsTyped, NEW n \in Card \cup {NoCard}
  PROVE  KeyOf(n) \in Nat
BY DEF RowsTyped, KeyOf

---------------------------------------------------------------------------
(* Records *)

\* A frame about a card.
LEMMA FrameTyped ==
  ASSUME NEW type \in {"card.moved", "card.deleted", "card.created", "card.updated"},
         NEW c \in Card, NEW l \in List, NEW key \in Nat
  PROVE  Frame(type, c, l, key) \in CardFrames
BY DEF Frame, CardFrames, FrameType

\* A frame about a list.
LEMMA ListFrameTyped ==
  ASSUME NEW l \in List
  PROVE  Frame("list.deleted", NoCard, l, 0) \in CardFrames
BY DEF Frame, CardFrames, FrameType

\* A request that was answered, or failed.
Answered(k, is, c, key) == [k EXCEPT !.is = is, !.card = c, !.minted = key]

\* Only the answer is new.
LEMMA AnsweredIs ==
  ASSUME NEW k \in CallType, NEW is \in {"sent", "done", "failed"},
         NEW c \in Card \cup {NoCard}, NEW key \in Nat
  PROVE  LET y == Answered(k, is, c, key)
         IN /\ y \in CallType
            /\ y.is = is /\ y.card = c /\ y.minted = key
            /\ y.op = k.op /\ y.id = k.id /\ y.from = k.from /\ y.to = k.to
            /\ y.index = k.index /\ y.version = k.version /\ y.since = k.since
<1> DEFINE a == [k EXCEPT !.is = is]
           b == [a EXCEPT !.card = c]
           y == Answered(k, is, c, key)
<1>1. /\ a \in CallType /\ a.is = is
      /\ a.op = k.op /\ a.id = k.id /\ a.from = k.from /\ a.to = k.to
      /\ a.index = k.index /\ a.version = k.version /\ a.since = k.since
  BY DEF CallType
<1>2. /\ b \in CallType /\ b.is = is /\ b.card = c
      /\ b.op = a.op /\ b.id = a.id /\ b.from = a.from /\ b.to = a.to
      /\ b.index = a.index /\ b.version = a.version /\ b.since = a.since
  <2> HIDE DEF a
  <2>. QED BY <1>1 DEF CallType
<1>3. y = [b EXCEPT !.minted = key]
  BY DEF Answered
<1> HIDE DEF a, b, y
<1>4. /\ y \in CallType /\ y.is = is /\ y.card = c /\ y.minted = key
      /\ y.op = b.op /\ y.id = b.id /\ y.from = b.from /\ y.to = b.to
      /\ y.index = b.index /\ y.version = b.version /\ y.since = b.since
  BY <1>2, <1>3 DEF CallType
<1>. QED BY <1>1, <1>2, <1>4 DEF y

\* A request that something happened to.
NotedOf(k, what) == [k EXCEPT !.since = @ \cup {what}]

\* Only the past is new.
LEMMA NotedIs ==
  ASSUME NEW k \in CallType, NEW what \in {"mine", "frame", "reload"}
  PROVE  LET y == NotedOf(k, what)
         IN /\ y \in CallType
            /\ y.since = k.since \cup {what}
            /\ y.is = k.is /\ y.card = k.card /\ y.minted = k.minted
            /\ y.op = k.op /\ y.id = k.id /\ y.from = k.from /\ y.to = k.to
            /\ y.index = k.index /\ y.version = k.version
<1> DEFINE z == k.since \cup {what}
<1>1. z \in SUBSET {"mine", "frame", "reload"}
  BY DEF CallType
<1>2. NotedOf(k, what) = [k EXCEPT !.since = z]
  BY DEF NotedOf
<1> HIDE DEF z
<1>. QED BY <1>1, <1>2 DEF CallType, z

---------------------------------------------------------------------------
(* Types are kept *)

\* A card is put into a list.
LEMMA PlaceKeepsRows ==
  ASSUME RowsTyped, NEW c \in Card, NEW l \in open, NEW key \in Nat,
         Place(c, l, key), open' = open
  PROVE  RowsTyped'
<1>1. row' = [row EXCEPT ![c] = [list |-> l, key |-> key]]
  BY DEF Place
<1>2. [list |-> l, key |-> key] \in [list : List \cup {Nowhere}, key : Nat]
  BY DEF RowsTyped
<1>3. \A d \in Card : row'[d] = IF d = c THEN [list |-> l, key |-> key] ELSE row[d]
  BY <1>1 DEF RowsTyped
<1>4. ASSUME NEW d \in Card, row'[d] # Gone PROVE row'[d].list \in open
  BY <1>3, <1>4 DEF RowsTyped
<1>. QED BY <1>1, <1>2, <1>4 DEF RowsTyped

\* What the server does with a move it accepts: a place and a frame.
LEMMA ServedMove ==
  ASSUME TypesInv, NEW k \in requests, ServeMove(k)
  PROVE  \E key \in Nat, type \in {"card.updated", "card.moved"} :
           /\ k.id \in Card /\ row[k.id] # Gone /\ k.to \in open /\ k.op = "move" /\ k.is = "sent"
           /\ Place(k.id, k.to, key)
           /\ requests' = (requests \ {k}) \cup {Answered(k, "done", k.id, key)}
           /\ Commit(Frame(type, k.id, k.to, key))
           /\ type = "card.updated" => row[k.id].list = k.to
<1> DEFINE alone == k.before = NoCard /\ k.after = NoCard
           stays == alone /\ row[k.id].list = k.to
           key   == IF stays THEN row[k.id].key
                    ELSE IF alone THEN AppendKey(k.to)
                    ELSE KeyBetween(KeyOf(k.before), KeyOf(k.after))
           type == IF stays THEN "card.updated" ELSE "card.moved"
<1>1. /\ k.is = "sent" /\ k.op = "move" /\ Acceptable(k)
      /\ Place(k.id, k.to, key) /\ Reply(k, "done", k.id, key)
      /\ Commit(Frame(type, k.id, k.to, key))
  BY DEF ServeMove
<1>2. /\ k.id \in Card /\ row[k.id] # Gone /\ k.to \in open
      /\ Known(k.before, k.to) /\ Known(k.after, k.to)
  BY <1>1 DEF Acceptable
<1>3. RowsTyped
  BY DEF TypesInv
<1>4. k.before \in Card \cup {NoCard} /\ k.after \in Card \cup {NoCard}
  BY <1>2 DEF Known, In
<1>5. key \in Nat
  <2>1. row[k.id].key \in Nat /\ AppendKey(k.to) \in Nat
    BY <1>2, <1>3, AppendKeyTyped DEF RowsTyped
  <2>2. KeyOf(k.before) \in Nat /\ KeyOf(k.after) \in Nat
    BY <1>3, <1>4, KeyOfTyped
  <2>3. KeyBetween(KeyOf(k.before), KeyOf(k.after)) \in Nat
    BY <2>2, KeyBetweenTyped
  <2>. QED BY <2>1, <2>3
<1>6. requests' = (requests \ {k}) \cup {Answered(k, "done", k.id, key)}
  BY <1>1 DEF Reply, Answered
<1>7. type \in {"card.updated", "card.moved"} /\ (type = "card.updated" => row[k.id].list = k.to)
  OBVIOUS
<1> HIDE DEF key, type
<1>. QED BY <1>1, <1>2, <1>5, <1>6, <1>7

\* What the server does to create a card for the client.
LEMMA ServedCreate ==
  ASSUME TypesInv, NEW k \in requests, ServeCreate(k)
  PROVE  \E c \in Card, key \in Nat :
           /\ k.op = "create" /\ k.is = "sent" /\ k.to \in open /\ Fresh(c)
           /\ Place(c, k.to, key)
           /\ requests' = (requests \ {k}) \cup {Answered(k, "done", c, key)}
           /\ Commit(Frame("card.created", c, k.to, key))
<1>1. AppendKey(k.to) \in Nat
  BY AppendKeyTyped DEF TypesInv
<1>. QED BY <1>1 DEF ServeCreate, Reply, Answered

\* What other users do to one card: a place and a frame.
LEMMA PeerMoved ==
  ASSUME TypesInv, PeerMove
  PROVE  \E c \in Card, l \in open, key \in Nat :
           /\ row[c] # Gone /\ Place(c, l, key) /\ Commit(Frame("card.moved", c, l, key))
<1>0. PICK c \in {d \in Card : row[d] # Gone}, l \in open :
      \E prev \in {NoCard} \cup (In(l) \ {c}) :
        LET later == {d \in In(l) \ {c} : row[d].key > KeyOf(prev)}
            next  == IF later = {} THEN 0 ELSE Min({row[d].key : d \in later})
            key   == KeyBetween(KeyOf(prev), next)
        IN Place(c, l, key) /\ Commit(Frame("card.moved", c, l, key))
  BY DEF PeerMove
<1>1. PICK prev \in {NoCard} \cup (In(l) \ {c}) :
        LET later == {d \in In(l) \ {c} : row[d].key > KeyOf(prev)}
            next  == IF later = {} THEN 0 ELSE Min({row[d].key : d \in later})
            key   == KeyBetween(KeyOf(prev), next)
        IN Place(c, l, key) /\ Commit(Frame("card.moved", c, l, key))
  BY <1>0
<1> DEFINE later == {d \in In(l) \ {c} : row[d].key > KeyOf(prev)}
           keys == {row[d].key : d \in later}
           next == IF later = {} THEN 0 ELSE Min(keys)
           key == KeyBetween(KeyOf(prev), next)
<1>2. Place(c, l, key) /\ Commit(Frame("card.moved", c, l, key))
  BY <1>1
<1>3. RowsTyped
  BY DEF TypesInv
<1>4. keys \in SUBSET Nat
  BY <1>3, CardsOfLists
<1>5. later # {} => keys # {}
  OBVIOUS
<1> HIDE DEF keys, later
<1>6. next \in Nat
  BY <1>4, <1>5, LeastOf
<1>7. KeyOf(prev) \in Nat
  <2>1. prev \in Card \cup {NoCard}
    BY DEF In
  <2>. QED BY <1>3, <2>1, KeyOfTyped
<1> HIDE DEF next
<1>8. key \in Nat
  BY <1>6, <1>7, KeyBetweenTyped
<1>. QED BY <1>1, <1>2, <1>8

\* What the server does when someone else creates a card.
LEMMA PeerCreated ==
  ASSUME TypesInv, PeerCreate
  PROVE  \E c \in Card, l \in open, key \in Nat :
           /\ Fresh(c) /\ Place(c, l, key) /\ Commit(Frame("card.created", c, l, key))
<1>1. \A l : AppendKey(l) \in Nat
  BY AppendKeyTyped DEF TypesInv
<1>. QED BY <1>1 DEF PeerCreate

\* The steps that leave the rows alone.
LEMMA RowsStep ==
  ASSUME TypesInv, [StoreNext]_storeVars
  PROVE  RowsTyped'
<1> USE DEF TypesInv
<1>1. CASE UNCHANGED rows
  BY <1>1 DEF rows, RowsTyped
<1>2. ASSUME NEW k \in requests, ServeMove(k) PROVE RowsTyped'
  BY <1>2, ServedMove, PlaceKeepsRows DEF ServeMove
<1>3. ASSUME NEW k \in requests, ServeCreate(k) PROVE RowsTyped'
  BY <1>3, ServedCreate, PlaceKeepsRows DEF ServeCreate
<1>4. CASE PeerMove
  BY <1>4, PeerMoved, PlaceKeepsRows DEF PeerMove
<1>5. CASE PeerCreate
  BY <1>5, PeerCreated, PlaceKeepsRows DEF PeerCreate
<1>6. CASE PeerDelete
  <2>1. PICK c \in Card : row' = [row EXCEPT ![c] = Gone] /\ open' = open
    BY <1>6 DEF PeerDelete
  <2>2. Gone \in [list : List \cup {Nowhere}, key : Nat]
    BY DEF Gone
  <2>3. \A d \in Card : row'[d] = IF d = c THEN Gone ELSE row[d]
    BY <2>1 DEF RowsTyped
  <2>. QED BY <2>1, <2>2, <2>3 DEF RowsTyped
<1>7. CASE PeerDeleteList
  <2>1. PICK l \in open : /\ open' = open \ {l}
                          /\ row' = [c \in Card |-> IF row[c].list = l THEN Gone ELSE row[c]]
    BY <1>7 DEF PeerDeleteList
  <2>2. Gone \in [list : List \cup {Nowhere}, key : Nat]
    BY DEF Gone
  <2>3. \A c \in Card : row'[c] # Gone => row'[c] = row[c] /\ row[c].list # l
    BY <2>1
  <2>4. row' \in [Card -> [list : List \cup {Nowhere}, key : Nat]]
    BY <2>1, <2>2 DEF RowsTyped
  <2>. QED BY <2>1, <2>3, <2>4 DEF RowsTyped
<1>8. ASSUME NEW k \in requests, RejectMove(k) \/ FailCall(k) \/ Settle(k) PROVE UNCHANGED rows
  BY <1>8 DEF RejectMove, FailCall, Settle
<1>9. ASSUME NEW c, NEW from, NEW to, NEW i, MoveCard(c, from, to, i) PROVE UNCHANGED rows
  BY <1>9 DEF MoveCard
<1>10. ASSUME NEW t, NEW l, AddCard(t, l) PROVE UNCHANGED rows
  BY <1>10 DEF AddCard
<1>11. ASSUME NEW n, Jump(n) PROVE UNCHANGED rows
  BY <1>11 DEF Jump
<1>12. CASE Emit \/ ApplyFrame \/ RefetchBoard \/ (\E l \in DOMAIN fetch : ReadList(l))
              \/ HydrateBoard \/ FetchFails \/ UNCHANGED storeVars
  BY <1>1, <1>12 DEF Emit, ApplyFrame, RefetchBoard, ReadList, HydrateBoard, FetchFails, storeVars
<1>. QED BY <1>1, <1>2, <1>3, <1>4, <1>5, <1>6, <1>7, <1>8, <1>9, <1>10, <1>11, <1>12
         DEF StoreNext, Serve

---------------------------------------------------------------------------
(* Frames *)

\* A commit keeps the types of the frames.
LEMMA CommitKeepsFrames ==
  ASSUME FramesTyped, NEW f \in CardFrames, Commit(f), lastSeq' = lastSeq
  PROVE  FramesTyped'
<1>1. unsent' \in Seq(CardFrames)
  BY AppendProperties DEF Commit, FramesTyped
<1>. QED BY <1>1 DEF Commit, FramesTyped

\* So does every step.
LEMMA FramesStep ==
  ASSUME TypesInv, [StoreNext]_storeVars
  PROVE  FramesTyped'
<1> USE DEF TypesInv
<1>1. CASE UNCHANGED <<channel, lastSeq>>
  BY <1>1 DEF channel, FramesTyped
<1>2. CASE Emit
  <2>1. PICK i \in 1 .. Len(unsent) :
          frames' = Append(frames, unsent[i]) /\ unsent' = RemoveAt(unsent, i) /\ lastSeq' = lastSeq
    BY <1>2 DEF Emit
  <2>2. unsent[i] \in CardFrames /\ Len(unsent) \in Nat /\ DOMAIN unsent = 1 .. Len(unsent)
        /\ \A j \in 1 .. Len(unsent) : unsent[j] \in CardFrames
    BY ElementOfSeq, LenProperties DEF FramesTyped
  <2>3. frames' \in Seq(CardFrames) /\ Len(frames') = Len(frames) + 1
    BY <2>1, <2>2, AppendProperties DEF FramesTyped
  <2>4. unsent' \in Seq(CardFrames)
    <3> DEFINE a == SubSeq(unsent, 1, i - 1)
               m == i + 1
               b == SubSeq(unsent, m, Len(unsent))
    <3>1. m \in Int /\ i - 1 \in Int /\ (\A j \in 1 .. i - 1 : unsent[j] \in CardFrames)
          /\ (\A j \in m .. Len(unsent) : unsent[j] \in CardFrames)
      BY <2>2
    <3>2. unsent' = a \o b
      BY <2>1 DEF RemoveAt
    <3> HIDE DEF m
    <3>3. a \in Seq(CardFrames) /\ b \in Seq(CardFrames)
      BY <2>2, <3>1, SubSeqProperties
    <3> HIDE DEF a, b
    <3>. QED BY <3>2, <3>3, ConcatProperties
  <2>5. Len(frames) \in Nat
    BY LenProperties DEF FramesTyped
  <2>. QED BY <2>1, <2>3, <2>4, <2>5 DEF FramesTyped
<1>3. ASSUME NEW k \in requests, ServeMove(k) PROVE FramesTyped'
  <2>1. PICK key \in Nat, type \in {"card.updated", "card.moved"} :
          k.id \in Card /\ k.to \in open /\ Commit(Frame(type, k.id, k.to, key))
    BY <1>3, ServedMove
  <2>2. Frame(type, k.id, k.to, key) \in CardFrames
    BY <2>1, FrameTyped DEF RowsTyped
  <2>. QED BY <1>3, <2>1, <2>2, CommitKeepsFrames DEF ServeMove
<1>4. ASSUME NEW k \in requests, ServeCreate(k) PROVE FramesTyped'
  <2>1. PICK c \in Card, key \in Nat : k.to \in open /\ Commit(Frame("card.created", c, k.to, key))
    BY <1>4, ServedCreate
  <2>2. Frame("card.created", c, k.to, key) \in CardFrames
    BY <2>1, FrameTyped DEF RowsTyped
  <2>. QED BY <1>4, <2>1, <2>2, CommitKeepsFrames DEF ServeCreate
<1>5. CASE PeerMove
  <2>1. PICK c \in Card, l \in open, key \in Nat : Commit(Frame("card.moved", c, l, key))
    BY <1>5, PeerMoved
  <2>2. Frame("card.moved", c, l, key) \in CardFrames
    BY <2>1, FrameTyped DEF RowsTyped
  <2>. QED BY <1>5, <2>1, <2>2, CommitKeepsFrames DEF PeerMove
<1>6. CASE PeerCreate
  <2>1. PICK c \in Card, l \in open, key \in Nat : Commit(Frame("card.created", c, l, key))
    BY <1>6, PeerCreated
  <2>2. Frame("card.created", c, l, key) \in CardFrames
    BY <2>1, FrameTyped DEF RowsTyped
  <2>. QED BY <1>6, <2>1, <2>2, CommitKeepsFrames DEF PeerCreate
<1>7. CASE PeerDelete
  <2>1. PICK c \in Card : row[c] # Gone /\ Commit(Frame("card.deleted", c, row[c].list, 0))
    BY <1>7 DEF PeerDelete
  <2>2. Frame("card.deleted", c, row[c].list, 0) \in CardFrames
    BY <2>1, CardsAreListed, FrameTyped
  <2>. QED BY <1>7, <2>1, <2>2, CommitKeepsFrames DEF PeerDelete
<1>8. CASE PeerDeleteList
  <2>1. PICK l \in open : Commit(Frame("list.deleted", NoCard, l, 0))
    BY <1>8 DEF PeerDeleteList
  <2>2. Frame("list.deleted", NoCard, l, 0) \in CardFrames
    BY <2>1, ListFrameTyped DEF RowsTyped
  <2>. QED BY <1>8, <2>1, <2>2, CommitKeepsFrames DEF PeerDeleteList
<1>9. Len(frames) \in Nat
  BY LenProperties DEF FramesTyped
<1>10. CASE ApplyFrame
  <2>1. lastSeq' = lastSeq + 1 /\ lastSeq < Len(frames) /\ UNCHANGED channel
    BY <1>10 DEF ApplyFrame
  <2>. QED BY <1>9, <2>1 DEF FramesTyped, channel
<1>11. ASSUME NEW n \in 1 .. Len(frames), Jump(n) PROVE FramesTyped'
  <2>1. lastSeq' = n /\ UNCHANGED channel
    BY <1>11 DEF Jump
  <2>. QED BY <1>9, <2>1 DEF FramesTyped, channel
<1>12. ASSUME NEW k \in requests, RejectMove(k) \/ FailCall(k) \/ Settle(k) PROVE UNCHANGED <<channel, lastSeq>>
  BY <1>12 DEF RejectMove, FailCall, Settle
<1>13. ASSUME NEW c, NEW from, NEW to, NEW i, MoveCard(c, from, to, i) PROVE UNCHANGED <<channel, lastSeq>>
  BY <1>13 DEF MoveCard
<1>14. ASSUME NEW t, NEW l, AddCard(t, l) PROVE UNCHANGED <<channel, lastSeq>>
  BY <1>14 DEF AddCard
<1>15. CASE RefetchBoard \/ (\E l \in DOMAIN fetch : ReadList(l))
            \/ HydrateBoard \/ FetchFails \/ UNCHANGED storeVars
  BY <1>1, <1>15 DEF RefetchBoard, ReadList, HydrateBoard, FetchFails, storeVars
<1>. QED BY <1>1, <1>2, <1>3, <1>4, <1>5, <1>6, <1>7, <1>8, <1>10, <1>11, <1>12, <1>13, <1>14, <1>15
         DEF StoreNext, Serve

\* A card is in one place of the lists.
Single(f, c) ==
  /\ \A l \in DOMAIN f : Once(f[l], c)
  /\ \A l, m \in DOMAIN f : Has(f[l], c) /\ Has(f[m], c) => l = m

ListsTyped(f) == DOMAIN f \subseteq List /\ \A l \in DOMAIN f : f[l] \in Seq(Id)

\* A card carried from one list to another, or within one.
LEMMA CarryMoves ==
  ASSUME ListsTyped(lists), NEW from \in DOMAIN lists, NEW to \in DOMAIN lists,
         NEW c \in Id, NEW i \in Nat \ {0}
  PROVE  LET f == Carry(c, from, to, i)
         IN /\ ListsTyped(f) /\ DOMAIN f = DOMAIN lists
            /\ \A l \in DOMAIN lists : Spares(lists[l], f[l], c)
            /\ Has(f[to], c)
            /\ Single(lists, c) /\ Has(lists[from], c) =>
                 Single(f, c) /\ \A l \in DOMAIN lists : Has(f[l], c) => l = to
<1> DEFINE taken == RemoveFirst(lists[from], c)
           base == IF from = to THEN taken ELSE lists[to]
           put == Splice(base, i, c)
           g == [lists EXCEPT ![from] = taken]
           f == [g EXCEPT ![to] = put]
<1>1. Carry(c, from, to, i) = f
  BY DEF Carry
<1>2. /\ taken \in Seq(Id) /\ Spares(lists[from], taken, c)
      /\ Once(lists[from], c) => ~Has(taken, c)
  BY RemoveSpares DEF ListsTyped
<1>3. base \in Seq(Id) /\ Spares(IF from = to THEN lists[from] ELSE lists[to], base, c)
  BY <1>2 DEF ListsTyped, Spares
<1> HIDE DEF taken
<1>4. (from = to => base = taken) /\ (from # to => base = lists[to])
  OBVIOUS
<1> HIDE DEF base
<1>5. /\ put \in Seq(Id) /\ Spares(base, put, c) /\ Has(put, c)
      /\ ~Has(base, c) => Once(put, c)
  BY <1>3, SpliceSpares
<1> HIDE DEF put
<1>6. /\ DOMAIN f = DOMAIN lists /\ f[to] = put
      /\ \A l \in DOMAIN lists : l # to => f[l] = IF l = from THEN taken ELSE lists[l]
  OBVIOUS
<1> HIDE DEF f
<1>7. ListsTyped(f)
  BY <1>2, <1>5, <1>6 DEF ListsTyped
<1>8. ASSUME NEW l \in DOMAIN lists PROVE Spares(lists[l], f[l], c)
  <2>1. CASE l = to
    <3>1. Spares(lists[to], base, c)
      BY <1>3
    <3>. QED BY <1>5, <1>6, <2>1, <3>1 DEF Spares
  <2>2. CASE l # to
    BY <1>2, <1>6, <2>2 DEF Spares
  <2>. QED BY <2>1, <2>2
<1>9. ASSUME Single(lists, c), Has(lists[from], c)
      PROVE  Single(f, c) /\ \A l \in DOMAIN lists : Has(f[l], c) => l = to
  <2>1. ~Has(taken, c)
    BY <1>2, <1>9 DEF Single
  <2>2. \A l \in DOMAIN lists : l # from => ~Has(lists[l], c)
    BY <1>9 DEF Single
  <2>3. ~Has(base, c)
    BY <1>4, <2>1, <2>2
  <2>4. \A l \in DOMAIN lists : Has(f[l], c) => l = to
    BY <1>6, <2>1, <2>2
  <2>5. \A l \in DOMAIN lists : Once(f[l], c)
    <3>1. \A s : ~Has(s, c) => Once(s, c)
      BY DEF Has, Once
    <3>. QED BY <1>5, <1>6, <2>3, <2>4, <3>1
  <2>. QED BY <1>6, <2>4, <2>5 DEF Single
<1>. QED BY <1>1, <1>5, <1>6, <1>7, <1>8, <1>9

\* The slot for a key is a place.
LEMMA SlotIs ==
  ASSUME NEW ids \in Seq(Id), NEW key
  PROVE  SlotFor(ids, key) \in Nat \ {0}
<1> DEFINE s == Append(ids, NoCard)
           T(d) == d = NoCard \/ (d \in DOMAIN cards /\ cards[d] # 0 /\ key < cards[d])
           I == {i \in 1 .. Len(s) : T(s[i])}
<1>1. ids \in Seq(Id \cup {NoCard}) /\ Len(ids) \in Nat
  BY SeqMonotonic, LenProperties
<1>2. Len(s) = Len(ids) + 1 /\ s[Len(ids) + 1] = NoCard
  BY <1>1, AppendProperties
<1>3. SlotFor(ids, key) = IF I # {} THEN Min(I) ELSE 0
  BY DEF SlotFor, SelectInSeq
<1> HIDE DEF s
<1>4. Len(ids) + 1 \in I
  BY <1>1, <1>2
<1>5. I \in SUBSET Nat /\ 0 \notin I
  BY <1>1, <1>2
<1> HIDE DEF I
<1>. QED BY <1>3, <1>4, <1>5, LeastOf

---------------------------------------------------------------------------
(* Requests *)

\* A drag: what is sent.
LEMMA DragSends ==
  ASSUME TypesInv, NEW c \in Id, NEW from \in DOMAIN lists, NEW to \in DOMAIN lists,
         NEW i \in DropPlaces(from, to), MoveCard(c, from, to, i)
  PROVE  /\ i \in Nat \ {0} /\ Has(lists[from], c) /\ c \in DOMAIN cards
         /\ lists' = Carry(c, from, to, i)
         /\ moveVersions' = [moveVersions EXCEPT ![c] = moveVersions[c] + 1]
         /\ \E k : /\ requests' = Mark(requests, c, "mine") \cup {k}
                   /\ RequestTyped(k)
                   /\ k.op = "move" /\ k.id = c /\ k.from = from /\ k.to = to
                   /\ k.version = moveVersions[c] + 1 /\ k.since = {} /\ k.is = "sent"
<1>1. lists[from] \in Seq(Id) /\ lists[to] \in Seq(Id) /\ ListsTyped(lists)
      /\ from \in List /\ to \in List
  BY DEF TypesInv, ViewTyped, ListsTyped
<1>2. i \in Nat \ {0}
  <2>1. Len(lists[to]) \in Nat
    BY <1>1, LenProperties
  <2>. QED BY <2>1 DEF DropPlaces
<1>3. Has(lists[from], c) /\ c \in DOMAIN cards
  BY DEF MoveCard, ToSet, Has
<1> DEFINE placed == Carry(c, from, to, i)[to]
           at == IndexOf(placed, c)
           old == IndexOf(lists[from], c)
           version == moveVersions[c] + 1
           key == cards[c]
           before == IF at > 1 THEN placed[at - 1] ELSE NoCard
           after == IF at < Len(placed) THEN placed[at + 1] ELSE NoCard
           k == Sent("move", c, from, to, old, key, version, before, after)
<1>4. /\ lists' = Carry(c, from, to, i)
      /\ moveVersions' = [moveVersions EXCEPT ![c] = version]
      /\ requests' = Mark(requests, c, "mine") \cup {k}
  BY DEF MoveCard
<1>5. placed \in Seq(Id) /\ Has(placed, c)
  BY <1>1, <1>2, CarryMoves DEF ListsTyped
<1> HIDE DEF placed
<1>6. at \in 1 .. Len(placed) /\ Len(placed) \in Nat /\ \A j \in 1 .. Len(placed) : placed[j] \in Id
  BY <1>5, IndexIs, ElementOfSeq, LenProperties
<1>7. old \in 1 .. Len(lists[from]) /\ Len(lists[from]) \in Nat
  BY <1>1, <1>3, IndexIs, LenProperties
<1> HIDE DEF at, old
<1>8. before \in Id \cup {NoCard} /\ after \in Id \cup {NoCard}
  BY <1>6
<1> HIDE DEF before, after
<1>9. version \in Nat /\ key \in Nat /\ old \in Nat /\ old > 0
  BY <1>3, <1>7 DEF TypesInv, ViewTyped
<1>9a. moveVersions' = [moveVersions EXCEPT ![c] = moveVersions[c] + 1] /\ version = moveVersions[c] + 1
  BY <1>4
<1> HIDE DEF version, key
<1>10. /\ k \in CallType /\ k.op = "move" /\ k.id = c /\ k.from = from /\ k.to = to
       /\ k.index = old /\ k.version = version /\ k.since = {} /\ k.is = "sent"
  BY <1>1, <1>8, <1>9 DEF Sent, CallType
<1> HIDE DEF k
<1>11. RequestTyped(k)
  BY <1>9, <1>10 DEF RequestTyped
<1>. QED BY <1>2, <1>3, <1>4, <1>9a, <1>10, <1>11

\* The request of a card that is added.
LEMMA AddSends ==
  ASSUME TypesInv, NEW t \in Temp, NEW l \in DOMAIN lists, AddCard(t, l)
  PROVE  \E k : /\ requests' = requests \cup {k} /\ RequestTyped(k)
                /\ k.op = "create" /\ k.id = t /\ k.is = "sent"
<1> DEFINE k == Sent("create", t, l, l, 0, 0, 0, NoCard, NoCard)
<1>1. requests' = requests \cup {k}
  BY DEF AddCard
<1>2. l \in List /\ t \in Id
  BY DEF TypesInv, ViewTyped, Id
<1>3. k \in CallType /\ k.op = "create" /\ k.id = t /\ k.is = "sent"
  BY <1>2 DEF Sent, CallType
<1> HIDE DEF k
<1>. QED BY <1>1, <1>3 DEF RequestTyped

\* An answer keeps the types of a request.
LEMMA AnsweredTyped ==
  ASSUME NEW k, RequestTyped(k), NEW is \in {"sent", "done", "failed"},
         NEW c \in Card \cup {NoCard}, NEW key \in Nat,
         is = "done" /\ k.op = "create" => c \in Card
  PROVE  RequestTyped(Answered(k, is, c, key))
<1> DEFINE y == Answered(k, is, c, key)
<1>1. k \in CallType
  BY DEF RequestTyped
<1>2. y \in CallType /\ y.is = is /\ y.card = c /\ y.op = k.op /\ y.id = k.id /\ y.index = k.index
  BY <1>1, AnsweredIs
<1> HIDE DEF y
<1>3. RequestTyped(y)
  BY <1>2 DEF RequestTyped
<1>. QED BY <1>3 DEF y

\* So does a note of what happened to its card.
LEMMA NotedTyped ==
  ASSUME NEW k, RequestTyped(k), NEW what \in {"mine", "frame", "reload"}
  PROVE  RequestTyped(NotedOf(k, what))
BY NotedIs DEF RequestTyped

\* Mark, with the notes by name.
LEMMA MarkIs ==
  ASSUME NEW ks, NEW c, NEW what
  PROVE  Mark(ks, c, what) = {IF k.id = c THEN NotedOf(k, what) ELSE k : k \in ks}
BY DEF Mark, NotedOf

\* What becomes of the requests in a step.
LEMMA RequestsStep ==
  ASSUME TypesInv, [StoreNext]_storeVars
  PROVE  RequestsTyped'
<1>0. \A k \in requests : RequestTyped(k)
  BY DEF TypesInv, RequestsTyped
<1>1. CASE UNCHANGED requests
  BY <1>0, <1>1 DEF RequestsTyped, RequestTyped, CallType, Id
<1>2. ASSUME NEW k \in requests, NEW y, RequestTyped(y), requests' = (requests \ {k}) \cup {y}
      PROVE  RequestsTyped'
  BY <1>0, <1>2 DEF RequestsTyped, RequestTyped, CallType, Id
<1>3. ASSUME NEW k \in requests, ServeMove(k) PROVE RequestsTyped'
  <2>1. PICK key \in Nat : k.id \in Card /\ k.op = "move"
                        /\ requests' = (requests \ {k}) \cup {Answered(k, "done", k.id, key)}
    BY <1>3, ServedMove
  <2>. QED BY <1>0, <1>2, <2>1, AnsweredTyped
<1>4. ASSUME NEW k \in requests, ServeCreate(k) PROVE RequestsTyped'
  <2>1. PICK c \in Card, key \in Nat : requests' = (requests \ {k}) \cup {Answered(k, "done", c, key)}
    BY <1>4, ServedCreate
  <2>. QED BY <1>0, <1>2, <2>1, AnsweredTyped
<1>5. ASSUME NEW k \in requests, RejectMove(k) \/ FailCall(k) PROVE RequestsTyped'
  <2>1. requests' = (requests \ {k}) \cup {Answered(k, "failed", NoCard, 0)}
    BY <1>5 DEF RejectMove, FailCall, Reply, Answered
  <2>. QED BY <1>0, <1>2, <2>1, AnsweredTyped
<1>6. ASSUME NEW k \in requests, Settle(k) PROVE RequestsTyped'
  <2>1. requests' = requests \ {k}
    BY <1>6 DEF Settle
  <2>. QED BY <1>0, <2>1 DEF RequestsTyped, RequestTyped, CallType, Id
<1>7. ASSUME NEW c, NEW what \in {"mine", "frame"}, NEW r \in Mark(requests, c, what)
      PROVE  RequestTyped(r)
  BY <1>0, <1>7, MarkIs, NotedTyped
<1>8. ASSUME NEW c \in Id, NEW from \in DOMAIN lists, NEW to \in DOMAIN lists,
             NEW i \in DropPlaces(from, to), MoveCard(c, from, to, i)
      PROVE  RequestsTyped'
  <2>1. PICK k : requests' = Mark(requests, c, "mine") \cup {k} /\ RequestTyped(k)
    BY <1>8, DragSends
  <2>. QED BY <1>7, <2>1 DEF RequestsTyped
<1>9. ASSUME NEW t \in Temp, NEW l \in DOMAIN lists, AddCard(t, l) PROVE RequestsTyped'
  <2>1. PICK k : requests' = requests \cup {k} /\ RequestTyped(k)
    BY <1>9, AddSends
  <2>. QED BY <1>0, <2>1 DEF RequestsTyped
<1>10. CASE ApplyFrame
  <2>1. UNCHANGED requests \/ \E c : requests' = Mark(requests, c, "frame")
    BY <1>10 DEF ApplyFrame, CardMoved, CardDeleted, ListDeleted, ContentChanged, Stale
  <2>. QED BY <1>1, <1>7, <2>1 DEF RequestsTyped
<1>11. CASE HydrateBoard
  <2>1. requests' = {NotedOf(k, "reload") : k \in requests}
    BY <1>11 DEF HydrateBoard, NotedOf
  <2>. QED BY <1>0, <2>1, NotedTyped DEF RequestsTyped
<1>12. CASE PeerMove \/ PeerDelete \/ PeerCreate \/ PeerDeleteList
  BY <1>1, <1>12 DEF PeerMove, PeerDelete, PeerCreate, PeerDeleteList
<1>13. ASSUME NEW n, Jump(n) PROVE UNCHANGED requests
  BY <1>13 DEF Jump
<1>14. CASE Emit \/ RefetchBoard \/ (\E l \in DOMAIN fetch : ReadList(l)) \/ FetchFails \/ UNCHANGED storeVars
  BY <1>1, <1>14 DEF Emit, RefetchBoard, ReadList, FetchFails, storeVars
<1>. QED BY <1>1, <1>3, <1>4, <1>5, <1>6, <1>8, <1>9, <1>10, <1>11, <1>12, <1>13, <1>14
         DEF StoreNext, Serve

---------------------------------------------------------------------------
(* The view *)

CardsTyped(f) == DOMAIN f \subseteq Id /\ \A c \in DOMAIN f : f[c] \in Nat

\* The types of the view, part by part.
LEMMA ViewParts ==
  ViewTyped <=> /\ ListsTyped(lists) /\ CardsTyped(cards)
                /\ moveVersions \in [Id -> Nat] /\ needsResync \in BOOLEAN
                /\ strayed \subseteq Id /\ screen \in {"board", "loading", "error"}
                /\ spent \in [{"mine", "peers", "faults"} -> Nat]
BY DEF ViewTyped, ListsTyped, CardsTyped

\* A key is set; no card comes or goes.
LEMMA SetKeyTyped ==
  ASSUME CardsTyped(cards), NEW c, NEW key \in Nat, SetKey(c, key)
  PROVE  CardsTyped(cards') /\ DOMAIN cards' = DOMAIN cards
BY DEF CardsTyped, SetKey

\* Cards without some of them.
LEMMA FewerCards ==
  ASSUME CardsTyped(cards), NEW D, cards' = [c \in DOMAIN cards \ D |-> cards[c]]
  PROVE  CardsTyped(cards') /\ DOMAIN cards' = DOMAIN cards \ D
BY DEF CardsTyped

\* Cards with one more.
LEMMA OneMoreCard ==
  ASSUME NEW f, CardsTyped(f), NEW c \in Id, NEW key \in Nat
  PROVE  CardsTyped(With(f, c, key)) /\ DOMAIN With(f, c, key) = DOMAIN f \cup {c}
BY DEF CardsTyped, With

\* A card is taken out of all lists.
LEMMA WithoutLists ==
  ASSUME ListsTyped(lists), NEW c
  PROVE  LET f == [l \in DOMAIN lists |-> Without(lists[l], c)]
         IN /\ ListsTyped(f) /\ DOMAIN f = DOMAIN lists
            /\ \A l \in DOMAIN lists : Spares(lists[l], f[l], c) /\ ~Has(f[l], c)
BY WithoutSpares DEF ListsTyped

\* A card moved by a frame.
Replaced(c, l, key) ==
  LET rest == [m \in DOMAIN lists |-> Without(lists[m], c)]
  IN [rest EXCEPT ![l] = Splice(@, SlotFor(@, key), c)]

\* It is then in that list, once, and the others are spared.
LEMMA ReplacedIs ==
  ASSUME ListsTyped(lists), NEW c \in Id, NEW l \in DOMAIN lists, NEW key
  PROVE  LET f == Replaced(c, l, key)
         IN /\ ListsTyped(f) /\ DOMAIN f = DOMAIN lists
            /\ \A m \in DOMAIN lists : Spares(lists[m], f[m], c)
            /\ \A m \in DOMAIN lists : Has(f[m], c) <=> m = l
            /\ Single(f, c)
<1> DEFINE rest == [m \in DOMAIN lists |-> Without(lists[m], c)]
           at == SlotFor(rest[l], key)
           put == Splice(rest[l], at, c)
           f == [rest EXCEPT ![l] = put]
<1>1. /\ ListsTyped(rest) /\ DOMAIN rest = DOMAIN lists
      /\ \A m \in DOMAIN lists : Spares(lists[m], rest[m], c) /\ ~Has(rest[m], c)
  BY WithoutLists
<1>2. Replaced(c, l, key) = f
  BY DEF Replaced
<1> HIDE DEF rest
<1>3. rest[l] \in Seq(Id)
  BY <1>1 DEF ListsTyped
<1>4. at \in Nat \ {0}
  BY <1>3, SlotIs
<1> HIDE DEF at
<1>5. put \in Seq(Id) /\ Spares(rest[l], put, c) /\ Has(put, c) /\ Once(put, c)
  BY <1>1, <1>3, <1>4, SpliceSpares
<1> HIDE DEF put
<1>6. DOMAIN f = DOMAIN lists /\ f[l] = put /\ \A m \in DOMAIN lists : m # l => f[m] = rest[m]
  BY <1>1
<1> HIDE DEF f
<1>7. ListsTyped(f)
  BY <1>1, <1>5, <1>6 DEF ListsTyped
<1>8. ASSUME NEW m \in DOMAIN lists PROVE Spares(lists[m], f[m], c)
  <2>1. Spares(lists[m], rest[m], c)
    BY <1>1
  <2>2. m # l => f[m] = rest[m]
    BY <1>6
  <2>3. m = l => Spares(rest[m], f[m], c)
    BY <1>5, <1>6
  <2>. QED BY <2>1, <2>2, <2>3 DEF Spares
<1>9. \A m \in DOMAIN lists : Has(f[m], c) <=> m = l
  BY <1>1, <1>5, <1>6
<1>10. Single(f, c)
  <2>1. \A s : ~Has(s, c) => Once(s, c)
    BY DEF Has, Once
  <2>. QED BY <1>5, <1>6, <1>9, <2>1 DEF Single
<1>. QED BY <1>2, <1>6, <1>7, <1>8, <1>9, <1>10

\* Settling a request.
LEMMA SettleKeepsView ==
  ASSUME TypesInv, NEW k \in requests, Settle(k)
  PROVE  ListsTyped(lists') /\ CardsTyped(cards') /\ strayed' \subseteq Id
<1>1. ListsTyped(lists) /\ CardsTyped(cards) /\ strayed \subseteq Id
  BY ViewParts DEF TypesInv
<1>2. RequestTyped(k)
  BY DEF TypesInv, RequestsTyped
<1>3. k.id \in Id /\ k.minted \in Nat /\ k.key \in Nat /\ k.index \in Nat
  BY <1>2 DEF RequestTyped, CallType
<1>4. CASE MoveStored(k)
  BY <1>1, <1>3, <1>4, SetKeyTyped DEF MoveStored
<1>5. CASE MoveFailed(k)
  <2>1. strayed' \subseteq Id
    BY <1>1, <1>3, <1>5 DEF MoveFailed
  <2>2. CardsTyped(cards')
    BY <1>1, <1>3, <1>5, SetKeyTyped DEF MoveFailed
  <2>3. ListsTyped(lists')
    <3>1. k.index \in Nat \ {0}
      BY <1>2, <1>3, <1>5 DEF RequestTyped, MoveFailed
    <3>2. ASSUME k.from \in DOMAIN lists, k.to \in DOMAIN lists
          PROVE  ListsTyped(Carry(k.id, k.to, k.from, k.index))
      BY <1>1, <1>3, <3>1, <3>2, CarryMoves
    <3>. QED BY <1>1, <1>5, <3>2 DEF MoveFailed
  <2>. QED BY <2>1, <2>2, <2>3
<1>6. CASE CardCreated(k)
  <2>1. k.card \in Card /\ k.card \in Id
    BY <1>2, <1>6 DEF RequestTyped, CardCreated, Id
  <2>2. CardsTyped(cards')
    <3> DEFINE g == [c \in DOMAIN cards \ {k.id} |-> cards[c]]
    <3>1. CardsTyped(g)
      BY <1>1 DEF CardsTyped
    <3>2. cards' = With(g, k.card, k.minted)
      BY <1>6 DEF CardCreated
    <3> HIDE DEF g
    <3>. QED BY <1>3, <2>1, <3>1, <3>2, OneMoreCard
  <2>3. ListsTyped(lists')
    <3>1. CASE k.to \in DOMAIN lists
      <4> DEFINE s == lists[k.to]
                 u == [i \in DOMAIN s |-> IF s[i] = k.id THEN k.card ELSE s[i]]
      <4>1. lists' = [lists EXCEPT ![k.to] = u]
        BY <1>6, <3>1 DEF CardCreated
      <4>2. s \in Seq(Id)
        BY <1>1, <3>1 DEF ListsTyped
      <4>3. u \in Seq(Id)
        <5>1. Len(s) \in Nat /\ s \in [1 .. Len(s) -> Id]
          BY <4>2, LenProperties
        <5>2. u \in [1 .. Len(s) -> Id]
          BY <2>1, <5>1
        <5>. QED BY <5>1, <5>2, SeqDef
      <4> HIDE DEF u
      <4>. QED BY <1>1, <4>1, <4>3 DEF ListsTyped
    <3>2. CASE k.to \notin DOMAIN lists
      BY <1>1, <1>6, <3>2 DEF CardCreated
    <3>. QED BY <3>1, <3>2
  <2>. QED BY <1>1, <1>6, <2>2, <2>3 DEF CardCreated
<1>7. CASE CreateFailed(k)
  <2>1. CardsTyped(cards')
    BY <1>1, <1>7, FewerCards DEF CreateFailed
  <2>2. ListsTyped(lists')
    <3>1. CASE k.to \in DOMAIN lists
      <4>1. lists' = [lists EXCEPT ![k.to] = Without(lists[k.to], k.id)]
        BY <1>7, <3>1 DEF CreateFailed
      <4>2. Without(lists[k.to], k.id) \in Seq(Id)
        BY <1>1, <3>1, WithoutSpares DEF ListsTyped
      <4>. QED BY <1>1, <4>1, <4>2 DEF ListsTyped
    <3>2. CASE k.to \notin DOMAIN lists
      BY <1>1, <1>7, <3>2 DEF CreateFailed
    <3>. QED BY <3>1, <3>2
  <2>. QED BY <1>1, <1>7, <2>1, <2>2 DEF CreateFailed
<1>. QED BY <1>4, <1>5, <1>6, <1>7 DEF Settle

\* The frame that is applied.
LEMMA NextFrame ==
  ASSUME FramesTyped, lastSeq < Len(frames)
  PROVE  frames[lastSeq + 1] \in CardFrames
<1>1. lastSeq + 1 \in 1 .. Len(frames)
  BY LenProperties DEF FramesTyped
<1>. QED BY <1>1, ElementOfSeq DEF FramesTyped

\* The fields of a frame.
LEMMA FrameParts ==
  ASSUME NEW f \in CardFrames
  PROVE  /\ f.list \in List /\ f.key \in Nat
         /\ f.type # "list.deleted" => f.card \in Card /\ f.card \in Id
BY DEF CardFrames, FrameType, Id

\* A frame keeps the types of the view.
LEMMA FrameKeepsView ==
  ASSUME TypesInv, ApplyFrame
  PROVE  /\ ListsTyped(lists') /\ CardsTyped(cards') /\ strayed' \subseteq Id
         /\ moveVersions' \in [Id -> Nat] /\ needsResync' \in BOOLEAN
<1>1. /\ ListsTyped(lists) /\ CardsTyped(cards) /\ strayed \subseteq Id
      /\ moveVersions \in [Id -> Nat] /\ needsResync \in BOOLEAN
  BY ViewParts DEF TypesInv
<1>2. PICK f \in CardFrames : CardMoved(f) \/ CardDeleted(f) \/ ListDeleted(f) \/ ContentChanged(f)
  BY NextFrame DEF ApplyFrame, TypesInv
<1>3. ASSUME Stale(f) PROVE moveVersions' \in [Id -> Nat]
  <2>1. moveVersions' = [moveVersions EXCEPT ![f.card] = @ + 1]
    BY <1>3 DEF Stale
  <2>2. CASE f.card \in Id
    BY <1>1, <2>1, <2>2
  <2>3. CASE f.card \notin Id
    BY <1>1, <2>1, <2>3
  <2>. QED BY <2>2, <2>3
<1>4. CASE CardMoved(f)
  <2>1. f.card \in Id /\ f.key \in Nat
    BY <1>4, FrameParts DEF CardMoved
  <2>2. CASE f.card \in DOMAIN cards /\ f.list \in DOMAIN lists
    <3>1. lists' = Replaced(f.card, f.list, f.key) /\ cards' = [cards EXCEPT ![f.card] = f.key]
          /\ strayed' = strayed \ {f.card} /\ UNCHANGED needsResync
      BY <1>4, <2>2 DEF CardMoved, Replaced
    <3>2. ListsTyped(lists')
      BY <1>1, <2>1, <2>2, <3>1, ReplacedIs
    <3>3. CardsTyped(cards')
      BY <1>1, <2>1, <3>1 DEF CardsTyped
    <3>. QED BY <1>1, <1>3, <1>4, <3>1, <3>2, <3>3 DEF CardMoved
  <2>3. CASE ~(f.card \in DOMAIN cards /\ f.list \in DOMAIN lists)
    BY <1>1, <1>3, <1>4, <2>3 DEF CardMoved
  <2>. QED BY <2>2, <2>3
<1>5. CASE CardDeleted(f)
  <2>1. ListsTyped(lists')
    BY <1>1, <1>5, WithoutLists DEF CardDeleted
  <2>2. CardsTyped(cards')
    BY <1>1, <1>5, FewerCards DEF CardDeleted
  <2>. QED BY <1>1, <1>3, <1>5, <2>1, <2>2 DEF CardDeleted
<1>6. CASE ListDeleted(f)
  <2>1. ListsTyped(lists')
    BY <1>1, <1>6 DEF ListDeleted, ListsTyped
  <2>2. CardsTyped(cards')
    BY <1>1, <1>6, FewerCards DEF ListDeleted
  <2>3. strayed' \subseteq Id
    BY <1>1, <1>6 DEF ListDeleted, Id
  <2>. QED BY <1>1, <1>6, <2>1, <2>2, <2>3 DEF ListDeleted
<1>7. CASE ContentChanged(f)
  BY <1>1, <1>7 DEF ContentChanged
<1>. QED BY <1>2, <1>4, <1>5, <1>6, <1>7

\* A board that was read.
LEMMA SnapshotIs ==
  ASSUME FetchTyped, \A l \in DOMAIN fetch : fetch[l] # Unread
  PROVE  /\ ListsTyped(SnapshotLists) /\ DOMAIN SnapshotLists = DOMAIN fetch
         /\ CardsTyped(SnapshotCards)
         /\ \A l \in DOMAIN fetch : SnapshotLists[l] \in Seq(Card)
         /\ \A c : \A l \in DOMAIN fetch : Has(SnapshotLists[l], c) => c \in DOMAIN SnapshotCards
         /\ DOMAIN SnapshotCards \subseteq Card
<1>1. \A l \in DOMAIN fetch : fetch[l] \in Seq(Entries)
  BY DEF FetchTyped
<1>2. ASSUME NEW l \in DOMAIN fetch
      PROVE  /\ SnapshotLists[l] \in Seq(Card) /\ SnapshotLists[l] \in Seq(Id)
             /\ \A c : Has(SnapshotLists[l], c) => \E e \in ToSet(fetch[l]) : e.card = c
             /\ ToSet(fetch[l]) \subseteq Entries
  <2> DEFINE s == fetch[l]
  <2>1. Len(s) \in Nat /\ s \in [1 .. Len(s) -> Entries]
    BY <1>1, LenProperties
  <2>2. SnapshotLists[l] = [i \in 1 .. Len(s) |-> s[i].card]
    BY <2>1 DEF SnapshotLists
  <2> HIDE DEF s
  <2>3. SnapshotLists[l] \in [1 .. Len(s) -> Card]
    BY <2>1, <2>2 DEF Entries
  <2>4. SnapshotLists[l] \in Seq(Card)
    BY <2>1, <2>3, SeqDef
  <2>5. SnapshotLists[l] \in Seq(Id)
    <3>1. Card \subseteq Id
      BY DEF Id
    <3>. QED BY <2>4, <3>1, SeqMonotonic
  <2>6. \A c : Has(SnapshotLists[l], c) => \E e \in ToSet(s) : e.card = c
    BY <2>1, <2>2 DEF Has, ToSet
  <2>7. ToSet(s) \subseteq Entries
    BY <2>1 DEF ToSet
  <2>. QED BY <2>4, <2>5, <2>6, <2>7 DEF s
<1> DEFINE read == UNION {ToSet(fetch[l]) : l \in DOMAIN fetch}
<1>3. read \subseteq Entries
  BY <1>2
<1>4. SnapshotCards = [c \in {e.card : e \in read} |-> (CHOOSE e \in read : e.card = c).key]
  BY DEF SnapshotCards
<1>5. DOMAIN SnapshotCards = {e.card : e \in read}
  BY <1>4
<1>6. ASSUME NEW c \in DOMAIN SnapshotCards
      PROVE  c \in Card /\ c \in Id /\ SnapshotCards[c] \in Nat
  <2>1. PICK e \in read : e.card = c
    BY <1>5
  <2> DEFINE g == CHOOSE d \in read : d.card = c
  <2>2. g \in read
    BY <2>1
  <2>3. SnapshotCards[c] = g.key
    BY <1>4, <1>5
  <2> HIDE DEF g, read
  <2>. QED BY <1>3, <2>1, <2>2, <2>3 DEF Entries, Id
<1>7. \A c : \A l \in DOMAIN fetch : Has(SnapshotLists[l], c) => c \in DOMAIN SnapshotCards
  BY <1>2, <1>5
<1>8. DOMAIN SnapshotLists = DOMAIN fetch /\ DOMAIN fetch \subseteq List
  BY DEF SnapshotLists, FetchTyped
<1> HIDE DEF read
<1>. QED BY <1>2, <1>6, <1>7, <1>8 DEF ListsTyped, CardsTyped

\* Every step keeps the types of the view.
LEMMA ViewStep ==
  ASSUME TypesInv, [StoreNext]_storeVars
  PROVE  ViewTyped'
<1>0. /\ ListsTyped(lists) /\ CardsTyped(cards)
      /\ moveVersions \in [Id -> Nat] /\ needsResync \in BOOLEAN
      /\ strayed \subseteq Id /\ screen \in {"board", "loading", "error"}
      /\ spent \in [{"mine", "peers", "faults"} -> Nat]
  BY ViewParts DEF TypesInv
<1>1. ViewTyped' <=> /\ ListsTyped(lists') /\ CardsTyped(cards')
                     /\ moveVersions' \in [Id -> Nat] /\ needsResync' \in BOOLEAN
                     /\ strayed' \subseteq Id /\ screen' \in {"board", "loading", "error"}
                     /\ spent' \in [{"mine", "peers", "faults"} -> Nat]
  BY DEF ViewTyped, ListsTyped, CardsTyped, Id
<1>2. ASSUME NEW kind, NEW max, Use(kind, max) PROVE spent' \in [{"mine", "peers", "faults"} -> Nat]
  <2>1. spent' = [spent EXCEPT ![kind] = @ + 1]
    BY <1>2 DEF Use
  <2>2. CASE kind \in {"mine", "peers", "faults"}
    BY <1>0, <2>1, <2>2
  <2>3. CASE kind \notin {"mine", "peers", "faults"}
    BY <1>0, <2>1, <2>3
  <2>. QED BY <2>2, <2>3
<1>3. ASSUME UNCHANGED <<store, strayed, screen>>,
             UNCHANGED spent \/ \E kind, max : Use(kind, max)
      PROVE  ViewTyped'
  BY <1>0, <1>1, <1>2, <1>3 DEF store
<1>4. CASE PeerMove \/ PeerDelete \/ PeerCreate \/ PeerDeleteList
  BY <1>3, <1>4 DEF PeerMove, PeerDelete, PeerCreate, PeerDeleteList
<1>5. ASSUME NEW k \in requests, Serve(k) \/ FailCall(k) PROVE ViewTyped'
  BY <1>3, <1>5 DEF Serve, ServeMove, RejectMove, ServeCreate, FailCall
<1>6. ASSUME NEW k \in requests, Settle(k) PROVE ViewTyped'
  <2>1. UNCHANGED <<moveVersions, needsResync, screen, spent>>
    BY <1>6 DEF Settle
  <2>. QED BY <1>0, <1>1, <1>6, <2>1, SettleKeepsView
<1>7. ASSUME NEW c \in Id, NEW from \in DOMAIN lists, NEW to \in DOMAIN lists,
             NEW i \in DropPlaces(from, to), MoveCard(c, from, to, i)
      PROVE  ViewTyped'
  <2>1. i \in Nat \ {0} /\ lists' = Carry(c, from, to, i)
        /\ moveVersions' = [moveVersions EXCEPT ![c] = moveVersions[c] + 1]
    BY <1>7, DragSends
  <2>2. SetKey(c, 0) /\ Use("mine", MaxMine) /\ UNCHANGED <<needsResync, strayed, screen>>
    BY <1>7 DEF MoveCard
  <2>3. ListsTyped(lists')
    BY <1>0, <2>1, CarryMoves
  <2>4. CardsTyped(cards')
    BY <1>0, <2>2, SetKeyTyped
  <2>5. moveVersions' \in [Id -> Nat]
    BY <1>0, <2>1
  <2>. QED BY <1>0, <1>1, <1>2, <2>2, <2>3, <2>4, <2>5
<1>8. ASSUME NEW t \in Temp, NEW l \in DOMAIN lists, AddCard(t, l) PROVE ViewTyped'
  <2>1. /\ lists' = [lists EXCEPT ![l] = Append(lists[l], t)] /\ cards' = With(cards, t, 0)
        /\ Use("mine", MaxMine) /\ UNCHANGED <<moveVersions, needsResync, strayed, screen>>
    BY <1>8 DEF AddCard
  <2>2. t \in Id
    BY DEF Id
  <2>3. Append(lists[l], t) \in Seq(Id)
    BY <1>0, <2>2, AppendProperties DEF ListsTyped
  <2>4. ListsTyped(lists')
    BY <1>0, <2>1, <2>3 DEF ListsTyped
  <2>5. CardsTyped(cards')
    BY <1>0, <2>1, <2>2, OneMoreCard
  <2>. QED BY <1>0, <1>1, <1>2, <2>1, <2>4, <2>5
<1>9. CASE ApplyFrame
  <2>1. UNCHANGED <<screen, spent>>
    BY <1>9 DEF ApplyFrame
  <2>. QED BY <1>0, <1>1, <1>9, <2>1, FrameKeepsView
<1>10. ASSUME NEW n, Jump(n) PROVE ViewTyped'
  <2>1. /\ Use("faults", MaxFaults) /\ needsResync' = TRUE
        /\ UNCHANGED <<lists, cards, moveVersions, strayed, screen>>
    BY <1>10 DEF Jump
  <2>. QED BY <1>0, <1>1, <1>2, <2>1
<1>11. CASE RefetchBoard \/ FetchFails
  <2>1. /\ screen' \in {"board", "loading", "error"} /\ UNCHANGED <<store, strayed>>
        /\ UNCHANGED spent \/ Use("faults", MaxFaults)
    BY <1>11 DEF RefetchBoard, FetchFails
  <2>. QED BY <1>0, <1>1, <1>2, <2>1 DEF store
<1>12. CASE HydrateBoard
  <2>1. /\ \A l \in DOMAIN fetch : fetch[l] # Unread
        /\ lists' = SnapshotLists /\ cards' = SnapshotCards /\ moveVersions' = [c \in Id |-> 0]
        /\ needsResync' = FALSE /\ screen' = "board" /\ strayed' = {} /\ UNCHANGED spent
    BY <1>12 DEF HydrateBoard
  <2>2. ListsTyped(lists') /\ CardsTyped(cards')
    BY <2>1, SnapshotIs DEF TypesInv
  <2>. QED BY <1>0, <1>1, <2>1, <2>2
<1>13. CASE Emit \/ (\E l \in DOMAIN fetch : ReadList(l)) \/ UNCHANGED storeVars
  BY <1>3, <1>13 DEF Emit, ReadList, storeVars
<1>. QED BY <1>4, <1>5, <1>6, <1>7, <1>8, <1>9, <1>10, <1>11, <1>12, <1>13 DEF StoreNext

\* A list that is read.
LEMMA ReadIs ==
  ASSUME RowsTyped, NEW l \in DOMAIN fetch, ReadList(l)
  PROVE  \E s : /\ fetch' = [fetch EXCEPT ![l] = s] /\ s \in Seq(Entries)
                /\ \A c : (\E i \in DOMAIN s : s[i].card = c) <=> c \in In(l)
                /\ \A i, j \in DOMAIN s : s[i].card = s[j].card => i = j
<1> DEFINE n == Cardinality(In(l))
           b == ByKey(l)
           s == [i \in 1 .. n |-> [card |-> b[i], key |-> row[b[i]].key]]
<1>1. fetch' = [fetch EXCEPT ![l] = s]
  BY DEF ReadList
<1>2. n \in Nat /\ b \in [1 .. n -> In(l)] /\ ToSet(b) = In(l) /\ IsInjective(b)
  BY ByKeyIs
<1> HIDE DEF n, b
<1>3. s \in [1 .. n -> Entries]
  <2>1. \A i \in 1 .. n : b[i] \in Card /\ row[b[i]].key \in Nat
    BY <1>2, CardsOfLists
  <2>. QED BY <2>1 DEF Entries
<1>4. s \in Seq(Entries)
  BY <1>2, <1>3, SeqDef
<1>5. \A c : (\E i \in DOMAIN s : s[i].card = c) <=> c \in In(l)
  BY <1>2 DEF ToSet
<1>6. \A i, j \in DOMAIN s : s[i].card = s[j].card => i = j
  BY <1>2 DEF IsInjective
<1> HIDE DEF s
<1>. QED BY <1>1, <1>4, <1>5, <1>6

\* Every step keeps the types of what a refetch has read.
LEMMA FetchStep ==
  ASSUME TypesInv, [StoreNext]_storeVars
  PROVE  FetchTyped'
<1>0. FetchTyped /\ RowsTyped
  BY DEF TypesInv
<1>1. CASE UNCHANGED fetch
  BY <1>0, <1>1 DEF FetchTyped, Entries, Unread
<1>2. CASE RefetchBoard
  <2>1. fetch' = [l \in open |-> Unread]
    BY <1>2 DEF RefetchBoard
  <2>. QED BY <1>0, <2>1 DEF FetchTyped, RowsTyped, Unread
<1>3. ASSUME NEW l \in DOMAIN fetch, ReadList(l) PROVE FetchTyped'
  <2>1. PICK s : fetch' = [fetch EXCEPT ![l] = s] /\ s \in Seq(Entries)
    BY <1>0, <1>3, ReadIs
  <2>. QED BY <1>0, <2>1 DEF FetchTyped, Entries, Unread
<1>4. CASE HydrateBoard \/ FetchFails
  <2>1. fetch' = <<>> /\ DOMAIN <<>> = {}
    BY <1>4 DEF HydrateBoard, FetchFails
  <2>. QED BY <2>1 DEF FetchTyped
<1>5. ASSUME NEW k \in requests, Serve(k) \/ FailCall(k) \/ Settle(k) PROVE UNCHANGED fetch
  BY <1>5 DEF Serve, ServeMove, RejectMove, ServeCreate, FailCall, Settle
<1>6. ASSUME NEW c, NEW from, NEW to, NEW i, MoveCard(c, from, to, i) PROVE UNCHANGED fetch
  BY <1>6 DEF MoveCard
<1>7. ASSUME NEW t, NEW l, AddCard(t, l) PROVE UNCHANGED fetch
  BY <1>7 DEF AddCard
<1>8. ASSUME NEW n, Jump(n) PROVE UNCHANGED fetch
  BY <1>8 DEF Jump
<1>9. CASE Emit \/ PeerMove \/ PeerDelete \/ PeerCreate \/ PeerDeleteList \/ ApplyFrame \/ UNCHANGED storeVars
  BY <1>1, <1>9 DEF Emit, PeerMove, PeerDelete, PeerCreate, PeerDeleteList, ApplyFrame, storeVars
<1>. QED BY <1>1, <1>2, <1>3, <1>4, <1>5, <1>6, <1>7, <1>8, <1>9 DEF StoreNext

\* Every step keeps the types.
LEMMA TypesStep == TypesInv /\ [StoreNext]_storeVars => TypesInv'
<1> SUFFICES ASSUME TypesInv, [StoreNext]_storeVars PROVE TypesInv'
  OBVIOUS
<1>. QED BY RowsStep, FramesStep, RequestsStep, ViewStep, FetchStep DEF TypesInv

\* The types hold at first.
LEMMA TypesInitially == StoreInit => TypesInv
<1> SUFFICES ASSUME StoreInit PROVE TypesInv
  OBVIOUS
<1> DEFINE number(c) == SelectInSeq(SetToSeq(Card), LAMBDA d : d = c)
<1>1. ASSUME NEW c PROVE number(c) \in Nat
  <2> DEFINE s == SetToSeq(Card)
             I == {i \in 1 .. Len(s) : s[i] = c}
  <2>1. number(c) = IF I # {} THEN Min(I) ELSE 0
    BY DEF SelectInSeq
  <2>2. I \in SUBSET Nat
    OBVIOUS
  <2> HIDE DEF I
  <2>. QED BY <2>1, <2>2, LeastOf
<1>2. row = [c \in Card |-> IF Start[c] = Nowhere THEN Gone
                           ELSE [list |-> Start[c], key |-> Spacing * number(c)]]
  BY DEF StoreInit
<1> HIDE DEF number
<1>3. \A c \in Card : Spacing * number(c) \in Nat /\ Start[c] \in List \cup {Nowhere}
  BY <1>1, StoreAssumption DEF Spacing
<1>4. RowsTyped
  <2>1. open = List
    BY DEF StoreInit
  <2>2. row \in [Card -> [list : List \cup {Nowhere}, key : Nat]]
    BY <1>2, <1>3 DEF Gone
  <2>3. \A c \in Card : row[c] # Gone => row[c].list \in List
    BY <1>2, <1>3
  <2>. QED BY <2>1, <2>2, <2>3 DEF RowsTyped
<1>5. FramesTyped
  <2>1. unsent = <<>> /\ frames = <<>> /\ lastSeq = 0
    BY DEF StoreInit
  <2>. QED BY <2>1, EmptySeq DEF FramesTyped
<1>6. RequestsTyped
  BY DEF StoreInit, RequestsTyped
<1>7. ViewTyped
  <2>1. lists = [l \in List |-> ByKey(l)]
        /\ cards = [c \in {d \in Card : Start[d] # Nowhere} |-> row[c].key]
    BY DEF StoreInit
  <2>2. ASSUME NEW l \in List PROVE ByKey(l) \in Seq(Id)
    <3>1. Cardinality(In(l)) \in Nat /\ ByKey(l) \in [1 .. Cardinality(In(l)) -> In(l)]
      BY <1>4, ByKeyIs
    <3>2. ByKey(l) \in Seq(In(l)) /\ In(l) \subseteq Id
      BY <3>1, SeqDef DEF In, Id
    <3>. QED BY <3>2, SeqMonotonic
  <2>3. ListsTyped(lists)
    BY <2>1, <2>2 DEF ListsTyped
  <2>4. CardsTyped(cards)
    BY <1>4, <2>1 DEF CardsTyped, RowsTyped, Id
  <2>5. /\ moveVersions = [c \in Id |-> 0] /\ needsResync = FALSE /\ strayed = {}
        /\ screen = "board" /\ spent = [kind \in {"mine", "peers", "faults"} |-> 0]
    BY DEF StoreInit
  <2>. QED BY <2>3, <2>4, <2>5, ViewParts
<1>8. FetchTyped
  <2>1. fetch = <<>> /\ DOMAIN <<>> = {}
    BY DEF StoreInit
  <2>. QED BY <2>1 DEF FetchTyped
<1>. QED BY <1>4, <1>5, <1>6, <1>7, <1>8 DEF TypesInv

\* So they hold throughout.
LEMMA TypesHold == StoreSpec => []TypesInv
BY TypesInitially, TypesStep, PTL DEF StoreSpec

\* The store never leaves its types.
THEOREM StoreTypes == StoreSpec => []StoreTypeOK
BY TypesHold, TypesGiveTypes, PTL

---------------------------------------------------------------------------
(* The frames on their way to the view *)

\* All frames in their order, those without a number yet last.
Trail == frames \o unsent
Pending == lastSeq + 1 .. Len(Trail)

\* A frame that says where a card is, and the ones still to come.
About(f, c) == f.card = c /\ f.type \in {"card.moved", "card.deleted"}
Content(f) == f.type \in {"card.created", "card.updated"}
Unsure == \E i \in Pending : Content(Trail[i])
Awaited(c) == \E i \in Pending : About(Trail[i], c)
MoveAwaited(c) == \E i \in Pending : Trail[i].card = c /\ Trail[i].type = "card.moved"
DropAwaited(l) == \E i \in Pending : Trail[i].type = "list.deleted" /\ Trail[i].list = l

\* The trail is a sequence of frames, the numbered ones first.
LEMMA TrailIs ==
  ASSUME FramesTyped
  PROVE  /\ Trail \in Seq(CardFrames) /\ Len(Trail) = Len(frames) + Len(unsent)
         /\ Len(Trail) \in Nat /\ Len(frames) \in Nat /\ Len(unsent) \in Nat /\ DOMAIN Trail = 1 .. Len(Trail)
         /\ lastSeq \in 0 .. Len(Trail)
         /\ \A i \in 1 .. Len(Trail) : Trail[i] \in CardFrames
         /\ \A i \in 1 .. Len(frames) : Trail[i] = frames[i]
         /\ \A i \in 1 .. Len(unsent) : Trail[Len(frames) + i] = unsent[i]
<1>1. frames \in Seq(CardFrames) /\ unsent \in Seq(CardFrames) /\ lastSeq \in 0 .. Len(frames)
  BY DEF FramesTyped
<1>2. Len(frames) \in Nat /\ Len(unsent) \in Nat
  BY <1>1, LenProperties
<1>3. /\ Trail \in Seq(CardFrames) /\ Len(Trail) = Len(frames) + Len(unsent)
      /\ \A i \in 1 .. Len(frames) + Len(unsent) :
           Trail[i] = IF i <= Len(frames) THEN frames[i] ELSE unsent[i - Len(frames)]
  BY <1>1, ConcatProperties DEF Trail
<1>4. Len(Trail) \in Nat /\ DOMAIN Trail = 1 .. Len(Trail) /\ \A i \in 1 .. Len(Trail) : Trail[i] \in CardFrames
  BY <1>3, LenProperties, ElementOfSeq
<1>5. \A i \in 1 .. Len(frames) : Trail[i] = frames[i]
  BY <1>2, <1>3
<1>6. ASSUME NEW i \in 1 .. Len(unsent) PROVE Trail[Len(frames) + i] = unsent[i]
  <2> DEFINE n == Len(frames) + i
  <2>1. n \in 1 .. Len(frames) + Len(unsent) /\ ~(n <= Len(frames)) /\ n - Len(frames) = i
    BY <1>2
  <2> HIDE DEF n
  <2>2. Trail[n] = unsent[i]
    BY <1>3, <2>1
  <2>. QED BY <2>2 DEF n
<1>. QED BY <1>1, <1>2, <1>3, <1>4, <1>5, <1>6

\* A commit adds to the end; a frame that gets its number stays where it is.
LEMMA CommitAdds ==
  ASSUME FramesTyped, NEW f \in CardFrames, Commit(f)
  PROVE  Trail' = Append(Trail, f)
<1>1. frames \in Seq(CardFrames) /\ unsent \in Seq(CardFrames)
  BY DEF FramesTyped
<1>2. unsent' = Append(unsent, f) /\ frames' = frames
  BY DEF Commit
<1>3. Trail' = frames \o Append(unsent, f)
  BY <1>2 DEF Trail
<1>4. Append(unsent, f) = unsent \o <<f>> /\ <<f>> \in Seq(CardFrames)
  BY <1>1, AppendIsConcat
<1>5. Trail \in Seq(CardFrames)
  BY TrailIs
<1>6. Append(Trail, f) = Trail \o <<f>>
  BY <1>5, AppendIsConcat
<1>7. (frames \o unsent) \o <<f>> = frames \o (unsent \o <<f>>)
  BY <1>1, <1>4, ConcatAssociative
<1>. QED BY <1>3, <1>4, <1>6, <1>7 DEF Trail

\* The only frame without a number gets one: the trail is the same.
LEMMA EmitKeeps ==
  ASSUME FramesTyped, FramesTyped', Len(unsent) <= 1, Emit
  PROVE  Trail' = Trail /\ Len(unsent') = 0
<1>1. PICK i \in 1 .. Len(unsent) :
        frames' = Append(frames, unsent[i]) /\ unsent' = RemoveAt(unsent, i)
  BY DEF Emit
<1>2. frames \in Seq(CardFrames) /\ unsent \in Seq(CardFrames) /\ Len(unsent) \in Nat
  BY LenProperties DEF FramesTyped
<1>3. i = 1 /\ Len(unsent) = 1 /\ unsent[1] \in CardFrames
  <2> DEFINE m == Len(unsent)
  <2>0. m \in Nat /\ m <= 1 /\ i \in 1 .. m
    BY <1>1, <1>2
  <2> HIDE DEF m
  <2>1. i = 1 /\ m = 1
    BY <2>0
  <2>. QED BY <1>1, <1>2, <2>1, ElementOfSeq DEF m
<1>4. unsent' = SubSeq(unsent, 1, 0) \o SubSeq(unsent, 2, 1)
  BY <1>1, <1>3 DEF RemoveAt
<1>5. /\ SubSeq(unsent, 1, 0) \in Seq(CardFrames) /\ Len(SubSeq(unsent, 1, 0)) = 0
      /\ SubSeq(unsent, 2, 1) \in Seq(CardFrames) /\ Len(SubSeq(unsent, 2, 1)) = 0
  BY <1>2, SubSeqProperties
<1>6. Len(unsent') = 0
  BY <1>4, <1>5, ConcatProperties
<1>7. Len(frames') = Len(frames) + 1 /\ frames'[Len(frames) + 1] = unsent[1]
      /\ \A j \in 1 .. Len(frames) : frames'[j] = frames[j]
  BY <1>1, <1>2, <1>3, AppendProperties
<1>8. /\ Trail \in Seq(CardFrames) /\ Len(Trail) = Len(frames) + 1 /\ Len(frames) \in Nat
      /\ \A j \in 1 .. Len(frames) : Trail[j] = frames[j]
      /\ Trail[Len(frames) + 1] = unsent[1]
  BY <1>3, TrailIs
<1>9. Trail' \in Seq(CardFrames) /\ Len(Trail') = Len(frames') + Len(unsent')
      /\ \A j \in 1 .. Len(frames') : Trail'[j] = frames'[j]
  <2>1. frames' \in Seq(CardFrames) /\ unsent' \in Seq(CardFrames) /\ Trail' = frames' \o unsent'
    BY DEF FramesTyped, CardFrames, FrameType, Trail
  <2>2. Len(frames') \in Nat /\ Len(unsent') \in Nat
    BY <2>1, LenProperties
  <2>3. /\ Trail' \in Seq(CardFrames) /\ Len(Trail') = Len(frames') + Len(unsent')
        /\ \A j \in 1 .. Len(frames') + Len(unsent') :
             Trail'[j] = IF j <= Len(frames') THEN frames'[j] ELSE unsent'[j - Len(frames')]
    BY <2>1, ConcatProperties
  <2>. QED BY <2>2, <2>3
<1> DEFINE s == Trail
           t == Trail'
<1>10. s \in Seq(CardFrames) /\ t \in Seq(CardFrames) /\ Len(s) = Len(t)
  BY <1>6, <1>7, <1>8, <1>9
<1>11. \A j \in 1 .. Len(s) : t[j] = s[j]
  BY <1>6, <1>7, <1>8, <1>9
<1> HIDE DEF s, t
<1>12. s = t
  BY <1>10, <1>11, SeqEqual
<1>. QED BY <1>6, <1>12 DEF s, t

\* What is still to come, when a frame is added and when one is applied.
LEMMA TrailGrows ==
  ASSUME FramesTyped, NEW f \in CardFrames, Trail' = Append(Trail, f), lastSeq' = lastSeq
  PROVE  /\ Unsure' <=> Unsure \/ Content(f)
         /\ \A c : Awaited(c)' <=> Awaited(c) \/ About(f, c)
         /\ \A c : MoveAwaited(c)' <=> MoveAwaited(c) \/ (f.card = c /\ f.type = "card.moved")
         /\ \A l : DropAwaited(l)' <=> DropAwaited(l) \/ (f.type = "list.deleted" /\ f.list = l)
<1> DEFINE n == Len(Trail) + 1
<1>1. Trail \in Seq(CardFrames) /\ Len(Trail) \in Nat /\ lastSeq \in 0 .. Len(Trail)
  BY TrailIs
<1>2. /\ Len(Trail') = n /\ Trail'[n] = f
      /\ \A i \in 1 .. Len(Trail) : Trail'[i] = Trail[i]
  BY <1>1, AppendProperties
<1>3. Pending' = lastSeq + 1 .. n /\ Pending = lastSeq + 1 .. Len(Trail)
  BY <1>2 DEF Pending
<1>4. n \in Pending' /\ \A i \in Pending : i \in Pending' /\ Trail'[i] = Trail[i]
  BY <1>1, <1>2, <1>3
<1>5. \A i \in Pending' : i = n \/ i \in Pending
  BY <1>1, <1>3
<1> HIDE DEF n
<1>6. Unsure' <=> Unsure \/ Content(f)
  BY <1>2, <1>4, <1>5 DEF Unsure, Content
<1>7. \A c : Awaited(c)' <=> Awaited(c) \/ About(f, c)
  BY <1>2, <1>4, <1>5 DEF Awaited, About
<1>8. \A c : MoveAwaited(c)' <=> MoveAwaited(c) \/ (f.card = c /\ f.type = "card.moved")
  BY <1>2, <1>4, <1>5 DEF MoveAwaited
<1>9. \A l : DropAwaited(l)' <=> DropAwaited(l) \/ (f.type = "list.deleted" /\ f.list = l)
  BY <1>2, <1>4, <1>5 DEF DropAwaited
<1>. QED BY <1>6, <1>7, <1>8, <1>9

\* A frame is applied: it is not awaited any more.
LEMMA TrailShrinks ==
  ASSUME FramesTyped, lastSeq < Len(frames), Trail' = Trail, lastSeq' = lastSeq + 1
  PROVE  LET f == Trail[lastSeq + 1]
         IN /\ f = frames[lastSeq + 1] /\ f \in CardFrames /\ lastSeq + 1 \in 1 .. Len(Trail)
            /\ Unsure <=> Unsure' \/ Content(f)
            /\ \A c : Awaited(c) <=> Awaited(c)' \/ About(f, c)
            /\ \A c : MoveAwaited(c) <=> MoveAwaited(c)' \/ (f.card = c /\ f.type = "card.moved")
            /\ \A l : DropAwaited(l) <=> DropAwaited(l)' \/ (f.type = "list.deleted" /\ f.list = l)
<1> DEFINE n == lastSeq + 1
           f == Trail[n]
<1>1. /\ Len(Trail) \in Nat /\ lastSeq \in 0 .. Len(Trail) /\ Len(Trail) = Len(frames) + Len(unsent)
      /\ Len(frames) \in Nat /\ Len(unsent) \in Nat
      /\ \A i \in 1 .. Len(Trail) : Trail[i] \in CardFrames
      /\ \A i \in 1 .. Len(frames) : Trail[i] = frames[i]
  BY TrailIs
<1>2. n \in 1 .. Len(frames) /\ n \in 1 .. Len(Trail)
  BY <1>1
<1>3. n \in Pending /\ \A i \in Pending' : i \in Pending
  BY <1>1, <1>2 DEF Pending
<1>4. \A i \in Pending : i = n \/ i \in Pending'
  BY <1>1, <1>2 DEF Pending
<1>5. f = frames[n] /\ f \in CardFrames
  BY <1>1, <1>2
<1> HIDE DEF n
<1>6. Unsure <=> Unsure' \/ Content(f)
  BY <1>3, <1>4 DEF Unsure, Content
<1>7. \A c : Awaited(c) <=> Awaited(c)' \/ About(f, c)
  BY <1>3, <1>4 DEF Awaited, About
<1>8. \A c : MoveAwaited(c) <=> MoveAwaited(c)' \/ (f.card = c /\ f.type = "card.moved")
  BY <1>3, <1>4 DEF MoveAwaited
<1>9. \A l : DropAwaited(l) <=> DropAwaited(l)' \/ (f.type = "list.deleted" /\ f.list = l)
  BY <1>3, <1>4 DEF DropAwaited
<1>. QED BY <1>2, <1>5, <1>6, <1>7, <1>8, <1>9 DEF n

\* No frame is added or applied.
LEMMA TrailSame ==
  ASSUME Trail' = Trail, lastSeq' = lastSeq
  PROVE  /\ Unsure' <=> Unsure
         /\ \A c : (Awaited(c)' <=> Awaited(c)) /\ (MoveAwaited(c)' <=> MoveAwaited(c))
         /\ \A l : DropAwaited(l)' <=> DropAwaited(l)
<1>1. Pending' = Pending
  BY DEF Pending
<1>. QED BY <1>1 DEF Unsure, Awaited, MoveAwaited, DropAwaited, Content, About

---------------------------------------------------------------------------
(* The steps of the server that commit *)

\* Where a card may be shown: its list; any list that is gone, if it is.
Home(c, l) == IF row[c] = Gone THEN l \notin open ELSE l = row[c].list

\* The rows change as a frame says.
Does(f) ==
  /\ f \in CardFrames
  /\ \/ /\ f.type \in {"card.moved", "card.updated"} /\ open' = open
        /\ row[f.card] # Gone /\ row'[f.card] # Gone /\ row'[f.card].list = f.list
        /\ f.type = "card.updated" => row[f.card].list = f.list
        /\ \A d \in Card : d # f.card => row'[d] = row[d]
     \/ /\ f.type = "card.created" /\ open' = open /\ Fresh(f.card)
        /\ \A d \in Card : d # f.card => row'[d] = row[d]
     \/ /\ f.type = "card.deleted" /\ open' = open
        /\ row[f.card] # Gone /\ row'[f.card] = Gone
        /\ \A d \in Card : d # f.card => row'[d] = row[d]
     \/ /\ f.type = "list.deleted" /\ f.list \in open /\ open' = open \ {f.list}
        /\ \A d \in Card : row'[d] = IF row[d].list = f.list THEN Gone ELSE row[d]

\* A frame, the rows, and what becomes of the requests.
Commits(f) ==
  /\ Does(f) /\ Commit(f) /\ Trail' = Append(Trail, f)
  /\ UNCHANGED <<store, lastSeq, screen, fetch, strayed>>
  /\ \/ requests' = requests
     \/ \E k \in requests : \E key \in Nat : \E c \in Card :
          /\ requests' = (requests \ {k}) \cup {Answered(k, "done", c, key)}
          /\ About(f, k.id) \/ Content(f)

\* A card that is placed is in that list, and the others stay.
LEMMA PlaceIs ==
  ASSUME RowsTyped, NEW c \in Card, NEW l \in open, NEW key, Place(c, l, key)
  PROVE  /\ row'[c] # Gone /\ row'[c].list = l
         /\ \A d \in Card : d # c => row'[d] = row[d]
<1>1. l # Nowhere
  BY StoreAssumption DEF RowsTyped
<1>2. row' = [row EXCEPT ![c] = [list |-> l, key |-> key]] /\ c \in DOMAIN row
  BY DEF Place, RowsTyped
<1>3. row'[c] = [list |-> l, key |-> key] /\ \A d \in Card : d # c => row'[d] = row[d]
  BY <1>2 DEF RowsTyped
<1>. QED BY <1>1, <1>3 DEF Gone

\* The fields of a new frame.
LEMMA FrameIs ==
  ASSUME NEW type, NEW c, NEW l, NEW key
  PROVE  /\ Frame(type, c, l, key).type = type /\ Frame(type, c, l, key).card = c
         /\ Frame(type, c, l, key).list = l
BY DEF Frame

\* Every commit of the server changes the rows as its frame says.
LEMMA ServerCommits ==
  ASSUME TypesInv,
         \/ PeerMove \/ PeerDelete \/ PeerCreate \/ PeerDeleteList
         \/ \E k \in requests : ServeMove(k) \/ ServeCreate(k)
  PROVE  \E f : Commits(f)
<1>0. RowsTyped /\ FramesTyped
  BY DEF TypesInv
<1>1. CASE PeerMove
  <2>1. PICK c \in Card, l \in open, key \in Nat :
          row[c] # Gone /\ Place(c, l, key) /\ Commit(Frame("card.moved", c, l, key))
    BY <1>1, PeerMoved
  <2> DEFINE f == Frame("card.moved", c, l, key)
  <2>2. f \in CardFrames /\ f.type = "card.moved" /\ f.card = c /\ f.list = l
    BY <1>0, <2>1, FrameTyped, FrameIs DEF RowsTyped
  <2>3. Commit(f) /\ UNCHANGED <<open, requests, store, lastSeq, screen, fetch, strayed>>
    BY <1>1, <2>1 DEF PeerMove
  <2> HIDE DEF f
  <2>4. Does(f)
    BY <1>0, <2>1, <2>2, <2>3, PlaceIs DEF Does
  <2>. QED BY <1>0, <2>2, <2>3, <2>4, CommitAdds DEF Commits
<1>2. CASE PeerDelete
  <2>1. PICK c \in Card : /\ row[c] # Gone /\ Commit(Frame("card.deleted", c, row[c].list, 0))
                          /\ row' = [row EXCEPT ![c] = Gone]
    BY <1>2 DEF PeerDelete
  <2> DEFINE f == Frame("card.deleted", c, row[c].list, 0)
  <2>2. f \in CardFrames /\ f.type = "card.deleted" /\ f.card = c
    BY <1>0, <2>1, CardsAreListed, FrameTyped, FrameIs
  <2>3. Commit(f) /\ UNCHANGED <<open, requests, store, lastSeq, screen, fetch, strayed>>
    BY <1>2, <2>1 DEF PeerDelete
  <2> HIDE DEF f
  <2>4. Does(f)
    BY <1>0, <2>1, <2>2, <2>3 DEF Does, RowsTyped
  <2>. QED BY <1>0, <2>2, <2>3, <2>4, CommitAdds DEF Commits
<1>3. CASE PeerCreate
  <2>1. PICK c \in Card, l \in open, key \in Nat :
          Fresh(c) /\ Place(c, l, key) /\ Commit(Frame("card.created", c, l, key))
    BY <1>3, PeerCreated
  <2> DEFINE f == Frame("card.created", c, l, key)
  <2>2. f \in CardFrames /\ f.type = "card.created" /\ f.card = c
    BY <1>0, <2>1, FrameTyped, FrameIs DEF RowsTyped
  <2>3. Commit(f) /\ UNCHANGED <<open, requests, store, lastSeq, screen, fetch, strayed>>
    BY <1>3, <2>1 DEF PeerCreate
  <2> HIDE DEF f
  <2>4. Does(f)
    BY <1>0, <2>1, <2>2, <2>3, PlaceIs DEF Does
  <2>. QED BY <1>0, <2>2, <2>3, <2>4, CommitAdds DEF Commits
<1>4. CASE PeerDeleteList
  <2>1. PICK l \in open : /\ open' = open \ {l} /\ Commit(Frame("list.deleted", NoCard, l, 0))
                          /\ row' = [c \in Card |-> IF row[c].list = l THEN Gone ELSE row[c]]
    BY <1>4 DEF PeerDeleteList
  <2> DEFINE f == Frame("list.deleted", NoCard, l, 0)
  <2>2. f \in CardFrames /\ f.type = "list.deleted" /\ f.list = l
    BY <1>0, <2>1, ListFrameTyped, FrameIs DEF RowsTyped
  <2>3. Commit(f) /\ UNCHANGED <<requests, store, lastSeq, screen, fetch, strayed>>
    BY <1>4, <2>1 DEF PeerDeleteList
  <2> HIDE DEF f
  <2>4. Does(f)
    BY <1>0, <2>1, <2>2, <2>3 DEF Does
  <2>. QED BY <1>0, <2>2, <2>3, <2>4, CommitAdds DEF Commits
<1>5. ASSUME NEW k \in requests, ServeMove(k) PROVE \E f : Commits(f)
  <2>1. PICK key \in Nat, type \in {"card.updated", "card.moved"} :
           /\ k.id \in Card /\ row[k.id] # Gone /\ k.to \in open /\ k.op = "move" /\ k.is = "sent"
           /\ Place(k.id, k.to, key)
           /\ requests' = (requests \ {k}) \cup {Answered(k, "done", k.id, key)}
           /\ Commit(Frame(type, k.id, k.to, key))
           /\ type = "card.updated" => row[k.id].list = k.to
    BY <1>5, ServedMove
  <2> DEFINE f == Frame(type, k.id, k.to, key)
  <2>2. f \in CardFrames /\ f.type = type /\ f.card = k.id /\ f.list = k.to
    BY <1>0, <2>1, FrameTyped, FrameIs DEF RowsTyped
  <2>3. Commit(f) /\ UNCHANGED <<open, store, lastSeq, screen, fetch, strayed>>
    BY <1>5, <2>1 DEF ServeMove
  <2> HIDE DEF f
  <2>4. Does(f)
    BY <1>0, <2>1, <2>2, <2>3, PlaceIs DEF Does
  <2>5. About(f, k.id) \/ Content(f)
    BY <2>2 DEF About, Content
  <2>. QED BY <1>0, <2>1, <2>2, <2>3, <2>4, <2>5, CommitAdds DEF Commits
<1>6. ASSUME NEW k \in requests, ServeCreate(k) PROVE \E f : Commits(f)
  <2>1. PICK c \in Card, key \in Nat :
           /\ k.op = "create" /\ k.is = "sent" /\ k.to \in open /\ Fresh(c)
           /\ Place(c, k.to, key)
           /\ requests' = (requests \ {k}) \cup {Answered(k, "done", c, key)}
           /\ Commit(Frame("card.created", c, k.to, key))
    BY <1>6, ServedCreate
  <2> DEFINE f == Frame("card.created", c, k.to, key)
  <2>2. f \in CardFrames /\ f.type = "card.created" /\ f.card = c
    BY <1>0, <2>1, FrameTyped, FrameIs DEF RowsTyped
  <2>3. Commit(f) /\ UNCHANGED <<open, store, lastSeq, screen, fetch, strayed>>
    BY <1>6, <2>1 DEF ServeCreate
  <2> HIDE DEF f
  <2>4. Does(f)
    BY <1>0, <2>1, <2>2, <2>3, PlaceIs DEF Does
  <2>. QED BY <1>0, <2>1, <2>2, <2>3, <2>4, CommitAdds DEF Commits, Content
<1>. QED BY <1>1, <1>2, <1>3, <1>4, <1>5, <1>6

\* No frame after this one says where its card is.
LastWord(i) == \A j \in i + 1 .. Len(Trail) : ~About(Trail[j], Trail[i].card)

\* What the trail says of the rows: who is announced as deleted is gone and
\* not heard of again, and the last frame about a card tells where it is.
WordOf(i) ==
  /\ Trail[i].type = "card.deleted" => row[Trail[i].card] = Gone /\ LastWord(i)
  /\ Trail[i].type = "list.deleted" => Trail[i].list \notin open
  /\ Trail[i].type = "card.moved" /\ LastWord(i) => Home(Trail[i].card, Trail[i].list)

TrailInv == Len(unsent) <= 1 /\ \A i \in 1 .. Len(Trail) : WordOf(i)

\* What a commit does to a card its frame is not about.
LEMMA HomeKept ==
  ASSUME RowsTyped, NEW f, Does(f), NEW c \in Card, ~About(f, c),
         ~(f.type = "card.created" /\ f.card = c)
  PROVE  /\ \A l : Home(c, l) => Home(c, l)'
         /\ row[c] = Gone => row'[c] = Gone
         /\ row'[c] # Gone => row[c] # Gone /\ row'[c].list = row[c].list
<1>0. Gone.list = Nowhere /\ \A d \in Card : row[d] = Gone \/ row[d].list \in open
  BY DEF Gone, RowsTyped
<1>1. CASE f.type = "list.deleted"
  <2>1. f.list \in open /\ open' = open \ {f.list} /\ f.list # Nowhere
        /\ row'[c] = IF row[c].list = f.list THEN Gone ELSE row[c]
    BY <1>1, StoreAssumption DEF Does, RowsTyped
  <2>2. Gone' = Gone
    BY DEF Gone
  <2>3. row[c] = Gone => row'[c] = Gone
    BY <1>0, <2>1
  <2>4. row'[c] # Gone => row[c] # Gone /\ row'[c] = row[c]
    BY <2>1, <2>3
  <2>5. ASSUME NEW l, Home(c, l) PROVE Home(c, l)'
    <3>1. CASE row'[c] = Gone
      BY <1>0, <2>1, <2>2, <2>5, <3>1 DEF Home
    <3>2. CASE row'[c] # Gone
      BY <2>2, <2>4, <2>5, <3>2 DEF Home
    <3>. QED BY <3>1, <3>2
  <2>. QED BY <2>3, <2>4, <2>5
<1>2. CASE f.card # c /\ f.type # "list.deleted"
  <2>1. row'[c] = row[c] /\ open' = open
    BY <1>2 DEF Does
  <2>. QED BY <2>1 DEF Home, Gone
<1>3. CASE f.card = c /\ f.type = "card.updated"
  <2>1. row'[c] # Gone /\ row[c] # Gone /\ row'[c].list = row[c].list /\ open' = open
    BY <1>3 DEF Does
  <2>. QED BY <2>1 DEF Home, Gone
<1>. QED BY <1>1, <1>2, <1>3 DEF Does, CardFrames, FrameType, About

\* No frame has named a fresh id.
LEMMA FreshIsNew ==
  ASSUME FramesTyped, NEW c, Fresh(c), NEW i \in 1 .. Len(Trail)
  PROVE  Trail[i].card # c
<1>1. /\ Len(Trail) = Len(frames) + Len(unsent) /\ Len(frames) \in Nat /\ Len(unsent) \in Nat
      /\ \A j \in 1 .. Len(frames) : Trail[j] = frames[j]
      /\ \A j \in 1 .. Len(unsent) : Trail[Len(frames) + j] = unsent[j]
  BY TrailIs
<1>2. CASE i <= Len(frames)
  BY <1>1, <1>2 DEF Fresh
<1>3. CASE i > Len(frames)
  <2> DEFINE j == i - Len(frames)
  <2>1. j \in 1 .. Len(unsent) /\ Len(frames) + j = i
    BY <1>1, <1>3
  <2>. QED BY <1>1, <2>1 DEF Fresh
<1>. QED BY <1>1, <1>2, <1>3

\* A commit keeps what the trail says of the rows.
LEMMA CommitKeepsTrail ==
  ASSUME MaxUnsent = 1, TypesInv, TrailInv, NEW f, Commits(f)
  PROVE  TrailInv'
<1>0. RowsTyped /\ FramesTyped /\ Does(f) /\ Commit(f) /\ Trail' = Append(Trail, f) /\ f \in CardFrames
  BY DEF TypesInv, Commits, Does
<1> DEFINE n == Len(Trail) + 1
<1>1. Trail \in Seq(CardFrames) /\ Len(Trail) \in Nat /\ \A i \in 1 .. Len(Trail) : Trail[i] \in CardFrames
  BY <1>0, TrailIs
<1>2. /\ Len(Trail') = n /\ Trail'[n] = f
      /\ \A i \in 1 .. Len(Trail) : Trail'[i] = Trail[i]
  BY <1>0, <1>1, AppendProperties
<1>3. Len(unsent') <= 1
  <2>1. Len(unsent) \in Nat /\ unsent \in Seq(CardFrames) /\ unsent' = Append(unsent, f) /\ Len(unsent) < 1
    BY <1>0, LenProperties DEF FramesTyped, Commit
  <2>2. Len(unsent') = Len(unsent) + 1
    BY <1>0, <2>1, AppendProperties
  <2>. QED BY <2>1, <2>2
<1>4. Gone' = Gone
  BY DEF Gone
<1>5. ASSUME NEW i \in 1 .. Len(Trail)
      PROVE  /\ LastWord(i)' <=> LastWord(i) /\ ~About(f, Trail[i].card)
  <2>1. Trail'[i] = Trail[i]
    BY <1>2
  <2>2. \A j \in i + 1 .. n : j = n \/ j \in i + 1 .. Len(Trail)
    BY <1>1
  <2>3. n \in i + 1 .. n /\ \A j \in i + 1 .. Len(Trail) : j \in i + 1 .. n /\ Trail'[j] = Trail[j]
    BY <1>1, <1>2
  <2>4. LastWord(i)' <=> \A j \in i + 1 .. n : ~About(Trail'[j], Trail[i].card)
    BY <1>2, <2>1 DEF LastWord, About
  <2> HIDE DEF n
  <2>. QED BY <1>2, <2>2, <2>3, <2>4 DEF LastWord
<1>6. ASSUME NEW i \in 1 .. Len(Trail) PROVE WordOf(i)'
  <2>0. PICK g : g = Trail[i]
    OBVIOUS
  <2>1. WordOf(i) /\ Trail'[i] = g /\ g \in CardFrames
    BY <1>1, <1>2, <2>0 DEF TrailInv
  <2>2. ASSUME g.type # "list.deleted" PROVE ~(f.type = "card.created" /\ f.card = g.card) /\ g.card \in Card
    BY <1>0, <2>0, <2>1, <2>2, FreshIsNew, FrameParts DEF Does
  <2>3. ASSUME g.type = "card.deleted" PROVE row'[g.card] = Gone /\ LastWord(i)'
    <3>1. row[g.card] = Gone /\ LastWord(i)
      BY <2>0, <2>1, <2>3 DEF WordOf
    <3>2. ~About(f, g.card)
      BY <1>0, <3>1 DEF About, Does
    <3>. QED BY <1>0, <1>5, <2>0, <2>2, <2>3, <3>1, <3>2, HomeKept
  <2>4. ASSUME g.type = "list.deleted" PROVE g.list \notin open'
    BY <1>0, <2>0, <2>1, <2>4 DEF WordOf, Does
  <2>5. ASSUME g.type = "card.moved", LastWord(i)' PROVE Home(g.card, g.list)'
    <3>1. LastWord(i) /\ ~About(f, g.card)
      BY <1>5, <2>0, <2>5
    <3>2. Home(g.card, g.list)
      BY <2>0, <2>1, <2>5, <3>1 DEF WordOf
    <3>. QED BY <1>0, <2>2, <2>5, <3>1, <3>2, HomeKept
  <2>. QED BY <1>4, <2>1, <2>3, <2>4, <2>5 DEF WordOf, Home
<1>7. ASSUME NEW i, i = n PROVE WordOf(i)'
  <2>1. LastWord(i)' /\ Trail'[i] = f
    BY <1>1, <1>2, <1>7 DEF LastWord
  <2>2. f.type = "card.deleted" => row'[f.card] = Gone
    BY <1>0 DEF Does
  <2>3. f.type = "list.deleted" => f.list \notin open'
    BY <1>0 DEF Does
  <2>4. f.type = "card.moved" => row'[f.card] # Gone /\ row'[f.card].list = f.list
    BY <1>0 DEF Does
  <2>. QED BY <1>4, <2>1, <2>2, <2>3, <2>4 DEF WordOf, Home
<1>8. \A i \in 1 .. n : i = n \/ i \in 1 .. Len(Trail)
  BY <1>1
<1>9. ASSUME NEW i \in 1 .. Len(Trail') PROVE WordOf(i)'
  BY <1>2, <1>6, <1>7, <1>8
<1>. QED BY <1>3, <1>9 DEF TrailInv

\* Every step keeps the trail.
LEMMA TrailKept ==
  ASSUME TrailInv, UNCHANGED rows, Trail' = Trail, Len(unsent') <= 1
  PROVE  TrailInv'
<1>1. row' = row /\ open' = open
  BY DEF rows
<1>2. ASSUME NEW i PROVE (LastWord(i)' <=> LastWord(i)) /\ (WordOf(i)' <=> WordOf(i))
  BY <1>1 DEF LastWord, WordOf, Home, About, Gone
<1>. QED BY <1>2 DEF TrailInv

\* So does every step.
LEMMA TrailStep ==
  ASSUME MaxUnsent = 1, TypesInv, TypesInv', TrailInv, [StoreNext]_storeVars
  PROVE  TrailInv'
<1>1. CASE PeerMove \/ PeerDelete \/ PeerCreate \/ PeerDeleteList
           \/ \E k \in requests : ServeMove(k) \/ ServeCreate(k)
  BY <1>1, ServerCommits, CommitKeepsTrail
<1>2. CASE Emit
  <2>1. Trail' = Trail /\ Len(unsent') = 0 /\ UNCHANGED rows
    BY <1>2, EmitKeeps DEF TypesInv, TrailInv, Emit
  <2>. QED BY <2>1, TrailKept
<1>3. ASSUME UNCHANGED <<rows, channel>> PROVE TrailInv'
  <2>1. Trail' = Trail /\ Len(unsent') <= 1 /\ UNCHANGED rows
    BY <1>3 DEF channel, Trail, TrailInv
  <2>. QED BY <2>1, TrailKept
<1>4. ASSUME NEW k \in requests, RejectMove(k) \/ FailCall(k) \/ Settle(k) PROVE TrailInv'
  BY <1>3, <1>4 DEF RejectMove, FailCall, Settle
<1>5. ASSUME NEW c, NEW from, NEW to, NEW i, MoveCard(c, from, to, i) PROVE TrailInv'
  BY <1>3, <1>5 DEF MoveCard
<1>6. ASSUME NEW t, NEW l, AddCard(t, l) PROVE TrailInv'
  BY <1>3, <1>6 DEF AddCard
<1>7. ASSUME NEW n, Jump(n) PROVE TrailInv'
  BY <1>3, <1>7 DEF Jump
<1>8. CASE ApplyFrame \/ RefetchBoard \/ (\E l \in DOMAIN fetch : ReadList(l))
           \/ HydrateBoard \/ FetchFails \/ UNCHANGED storeVars
  BY <1>3, <1>8 DEF ApplyFrame, RefetchBoard, ReadList, HydrateBoard, FetchFails, storeVars
<1>. QED BY <1>1, <1>2, <1>4, <1>5, <1>6, <1>7, <1>8 DEF StoreNext, Serve

---------------------------------------------------------------------------
(* Where a card is shown, and why *)

\* A move under way that neither a frame nor a reload has overtaken.
Own(k, c) == k.op = "move" /\ k.id = c /\ k.since \subseteq {"mine"}
Past(c, v) == {k \in requests : Own(k, c) /\ k.version < v}

\* Where the moves before version v leave a card.
End(c, v, l) ==
  IF Past(c, v) = {} THEN Home(c, l)
  ELSE \E k \in Past(c, v) : k.to = l /\ \A j \in Past(c, v) : j.version <= k.version

Listed(c) == \E l \in DOMAIN lists : Has(lists[l], c)

\* A card is shown where the latest move under way put it, each move took it
\* from where the one before put it, and the first from its list.
Placed(c) ==
  /\ \A k \in requests : Own(k, c) => k.is # "done" /\ End(c, k.version, k.from)
  /\ \A l \in DOMAIN lists : Has(lists[l], c) => End(c, moveVersions[c] + 1, l)
  /\ row[c] # Gone => Listed(c)

\* The moves of a card under way are the same before and after a step.
OwnKept(c) ==
  /\ \A k \in requests : Own(k, c) =>
       \E j \in requests' : Own(j, c) /\ j.version = k.version /\ j.from = k.from /\ j.to = k.to
  /\ \A j \in requests' : Own(j, c) =>
       \E k \in requests : Own(k, c) /\ j.version = k.version /\ j.from = k.from /\ j.to = k.to

HomesKept(c) ==
  /\ \A l : Home(c, l) => Home(c, l)'
  /\ row'[c] # Gone => row[c] # Gone

\* The earlier moves are the same: they leave the card in the same list.
LEMMA EndFollows ==
  ASSUME NEW c, NEW v, HomesKept(c), NEW l, End(c, v, l),
         \A k \in Past(c, v) : \E j \in Past(c, v)' : j.version = k.version /\ j.to = k.to,
         \A j \in Past(c, v)' : \E k \in Past(c, v) : j.version = k.version /\ j.to = k.to
  PROVE  End(c, v, l)'
<1> DEFINE P == Past(c, v)
           Q == Past(c, v)'
<1>1. \A k \in P : \E j \in Q : j.version = k.version /\ j.to = k.to
  OBVIOUS
<1>2. \A j \in Q : \E k \in P : j.version = k.version /\ j.to = k.to
  OBVIOUS
<1>3. End(c, v, l) <=> IF P = {} THEN Home(c, l)
                       ELSE \E k \in P : k.to = l /\ \A j \in P : j.version <= k.version
  BY DEF End
<1>4. End(c, v, l)' <=> IF Q = {} THEN Home(c, l)'
                        ELSE \E k \in Q : k.to = l /\ \A j \in Q : j.version <= k.version
  BY DEF End
<1> HIDE DEF P, Q
<1>5. CASE P = {}
  <2>1. Q = {}
    BY <1>2, <1>5
  <2>. QED BY <1>3, <1>4, <1>5, <2>1 DEF HomesKept
<1>6. CASE P # {}
  <2>1. PICK k \in P : k.to = l /\ \A j \in P : j.version <= k.version
    BY <1>3, <1>6
  <2>2. PICK j \in Q : j.version = k.version /\ j.to = k.to
    BY <1>1
  <2>3. \A i \in Q : i.version <= j.version
    BY <1>2, <2>1, <2>2
  <2>. QED BY <1>4, <2>1, <2>2, <2>3
<1>. QED BY <1>5, <1>6

\* So it is when all its moves are the same.
LEMMA EndKept ==
  ASSUME NEW c, OwnKept(c), HomesKept(c), NEW v, NEW l, End(c, v, l)
  PROVE  End(c, v, l)'
<1>1. \A k \in Past(c, v) : \E j \in Past(c, v)' : j.version = k.version /\ j.to = k.to
  BY DEF OwnKept, Past
<1>2. \A j \in Past(c, v)' : \E k \in Past(c, v) : j.version = k.version /\ j.to = k.to
  BY DEF OwnKept, Past, Own
<1>. QED BY <1>1, <1>2, EndFollows

\* A card that a step is not about stays placed.
LEMMA PlacedKept ==
  ASSUME NEW c, Placed(c), OwnKept(c), HomesKept(c), moveVersions'[c] = moveVersions[c],
         \A k \in requests' : Own(k, c) /\ k.is = "done" => k \in requests,
         \A l \in DOMAIN lists' : Has(lists'[l], c) => l \in DOMAIN lists /\ Has(lists[l], c),
         row'[c] # Gone /\ Listed(c) => Listed(c)'
  PROVE  Placed(c)'
<1>0. Gone' = Gone
  BY DEF Gone
<1>1. ASSUME NEW j \in requests', Own(j, c) PROVE j.is # "done" /\ End(c, j.version, j.from)'
  <2>1. PICK k \in requests : Own(k, c) /\ j.version = k.version /\ j.from = k.from /\ j.to = k.to
    BY <1>1 DEF OwnKept
  <2>2. End(c, j.version, j.from)
    BY <2>1 DEF Placed
  <2>3. End(c, j.version, j.from)'
    BY <2>2, EndKept
  <2>. QED BY <1>1, <2>3 DEF Placed
<1>2. ASSUME NEW l \in DOMAIN lists', Has(lists'[l], c) PROVE End(c, moveVersions[c] + 1, l)'
  <2>0. PICK v : v = moveVersions[c] + 1
    OBVIOUS
  <2>1. End(c, v, l)
    BY <1>2, <2>0 DEF Placed
  <2>2. End(c, v, l)'
    BY <2>1, EndKept
  <2>3. v = moveVersions'[c] + 1
    BY <2>0
  <2>. QED BY <2>2, <2>3 DEF End, Past
<1>3. row'[c] # Gone => Listed(c)'
  BY DEF Placed, HomesKept
<1>. QED BY <1>0, <1>1, <1>2, <1>3 DEF Placed, Own

\* A card is in one place, and known if it is in one, unless a frame that
\* moves it is on its way; and it is placed, unless it strayed or a frame
\* about it is on its way.
CardOK(c) ==
  /\ ~MoveAwaited(c) => Single(lists, c) /\ (Listed(c) => c \in DOMAIN cards)
  /\ c \notin strayed /\ ~Awaited(c) => Placed(c)

\* The lists of the server are there, and others only while a frame that
\* removes them is on its way.
ListsOK == open \subseteq DOMAIN lists /\ \A l \in DOMAIN lists : l \in open \/ DropAwaited(l)

\* The temporary id of a card that was created is in no list any more.
CreatesOK ==
  \A k \in requests : k.op = "create" /\ k.is = "done" => \A l \in DOMAIN lists : ~Has(lists[l], k.id)

\* A view that no reload is due for.
Valid == screen = "board" /\ ~needsResync /\ ~Unsure
BoardOK == Valid => ListsOK /\ CreatesOK /\ \A c \in Card : CardOK(c)

\* What a step does to the lists, but for one id.
ListsSpare(e) == DOMAIN lists' = DOMAIN lists /\ \A l \in DOMAIN lists : Spares(lists[l], lists'[l], e)

\* A card other than the one a step is about stays where it is.
LEMMA Spared ==
  ASSUME NEW e, ListsSpare(e), NEW c, c # e
  PROVE  /\ Single(lists, c) => Single(lists', c)
         /\ \A l \in DOMAIN lists : Has(lists'[l], c) <=> Has(lists[l], c)
         /\ Listed(c)' <=> Listed(c)
<1>1. DOMAIN lists' = DOMAIN lists /\ \A l \in DOMAIN lists : Spares(lists[l], lists'[l], e)
  BY DEF ListsSpare
<1>2. \A l \in DOMAIN lists : (Has(lists'[l], c) <=> Has(lists[l], c)) /\ (Once(lists[l], c) => Once(lists'[l], c))
  BY <1>1 DEF Spares
<1>3. Single(lists, c) => Single(lists', c)
  BY <1>1, <1>2 DEF Single
<1>4. Listed(c)' <=> Listed(c)
  BY <1>1, <1>2 DEF Listed, Has
<1>. QED BY <1>2, <1>3, <1>4

\* The lists are left alone.
LEMMA ListsSame ==
  ASSUME lists' = lists, NEW e
  PROVE  ListsSpare(e)
BY DEF ListsSpare, Spares

\* A card that a step is not about.
LEMMA Bystander ==
  ASSUME NEW c, CardOK(c), NEW e, ListsSpare(e), c # e,
         Awaited(c) => Awaited(c)', MoveAwaited(c) => MoveAwaited(c)',
         c \in strayed => c \in strayed', c \in DOMAIN cards => c \in DOMAIN cards',
         Placed(c) /\ c \notin strayed' /\ ~Awaited(c)' =>
           /\ OwnKept(c) /\ HomesKept(c) /\ moveVersions'[c] = moveVersions[c]
           /\ \A k \in requests' : Own(k, c) /\ k.is = "done" => k \in requests
  PROVE  CardOK(c)'
<1>1. /\ Single(lists, c) => Single(lists', c)
      /\ \A l \in DOMAIN lists : Has(lists'[l], c) <=> Has(lists[l], c)
      /\ Listed(c)' <=> Listed(c)
      /\ DOMAIN lists' = DOMAIN lists
  BY Spared DEF ListsSpare
<1>2. ASSUME ~MoveAwaited(c)' PROVE Single(lists', c) /\ (Listed(c)' => c \in DOMAIN cards')
  BY <1>1, <1>2 DEF CardOK
<1>3. ASSUME c \notin strayed', ~Awaited(c)' PROVE Placed(c)'
  <2>1. Placed(c)
    BY <1>3 DEF CardOK
  <2>2. /\ OwnKept(c) /\ HomesKept(c) /\ moveVersions'[c] = moveVersions[c]
        /\ \A k \in requests' : Own(k, c) /\ k.is = "done" => k \in requests
    BY <1>3, <2>1
  <2>. QED BY <1>1, <2>1, <2>2, PlacedKept
<1>. QED BY <1>2, <1>3 DEF CardOK, Single, Once, Has

---------------------------------------------------------------------------
(* What becomes of the moves under way *)

\* A request that is answered is still the same move.
LEMMA OwnAnswered ==
  ASSUME RequestsTyped, NEW k \in requests, NEW is \in {"sent", "done", "failed"},
         NEW c \in Card \cup {NoCard}, NEW key \in Nat, NEW d,
         requests' = (requests \ {k}) \cup {Answered(k, is, c, key)}
  PROVE  /\ OwnKept(d)
         /\ is = "failed" \/ k.id # d \/ k.op # "move" =>
              \A j \in requests' : Own(j, d) /\ j.is = "done" => j \in requests
<1> DEFINE y == Answered(k, is, c, key)
<1>1. k \in CallType
  BY DEF RequestsTyped, RequestTyped
<1>2. y.is = is /\ y.op = k.op /\ y.id = k.id /\ y.from = k.from /\ y.to = k.to
      /\ y.version = k.version /\ y.since = k.since
  BY <1>1, AnsweredIs
<1>3. requests' = (requests \ {k}) \cup {y}
  OBVIOUS
<1> HIDE DEF y
<1>4. Own(y, d) <=> Own(k, d)
  BY <1>2 DEF Own
<1>5. OwnKept(d)
  BY <1>2, <1>3, <1>4 DEF OwnKept
<1>6. ASSUME is = "failed" \/ k.id # d \/ k.op # "move", NEW j \in requests', Own(j, d), j.is = "done"
      PROVE  j \in requests
  BY <1>2, <1>3, <1>6 DEF Own
<1>. QED BY <1>5, <1>6

\* Where a request comes from, after a drag or a frame.
LEMMA MarkedIs ==
  ASSUME RequestsTyped, NEW c, NEW what \in {"mine", "frame"}, NEW j \in Mark(requests, c, what)
  PROVE  \E k \in requests :
           /\ j.op = k.op /\ j.id = k.id /\ j.version = k.version /\ j.is = k.is
           /\ j.from = k.from /\ j.to = k.to
           /\ j = IF k.id = c THEN NotedOf(k, what) ELSE k
           /\ j.since = IF k.id = c THEN k.since \cup {what} ELSE k.since
<1>1. PICK k \in requests : j = IF k.id = c THEN NotedOf(k, what) ELSE k
  BY MarkIs
<1>2. k \in CallType
  BY DEF RequestsTyped, RequestTyped
<1>3. CASE k.id = c
  <2>1. j = NotedOf(k, what)
    BY <1>1, <1>3
  <2>2. /\ j.op = k.op /\ j.id = k.id /\ j.version = k.version /\ j.is = k.is
        /\ j.from = k.from /\ j.to = k.to /\ j.since = k.since \cup {what}
    BY <1>2, <2>1, NotedIs
  <2>. QED BY <1>3, <2>1, <2>2
<1>4. CASE k.id # c
  BY <1>1, <1>4
<1>. QED BY <1>3, <1>4

\* What becomes of a request in a drag or a frame.
LEMMA MarkedAll ==
  ASSUME RequestsTyped, NEW c, NEW what \in {"mine", "frame"}, NEW k \in requests
  PROVE  \E j \in Mark(requests, c, what) :
           /\ j.op = k.op /\ j.id = k.id /\ j.version = k.version /\ j.is = k.is
           /\ j.from = k.from /\ j.to = k.to
           /\ j = IF k.id = c THEN NotedOf(k, what) ELSE k
           /\ j.since = IF k.id = c THEN k.since \cup {what} ELSE k.since
<1> DEFINE j == IF k.id = c THEN NotedOf(k, what) ELSE k
<1>1. j \in Mark(requests, c, what)
  BY MarkIs
<1>2. k \in CallType
  BY DEF RequestsTyped, RequestTyped
<1>3. CASE k.id = c
  <2>1. j = NotedOf(k, what)
    BY <1>3
  <2> HIDE DEF j
  <2>. QED BY <1>1, <1>2, <1>3, <2>1, NotedIs
<1>4. CASE k.id # c
  BY <1>1, <1>4
<1>. QED BY <1>3, <1>4

\* The moves of other cards.
LEMMA OthersMarked ==
  ASSUME RequestsTyped, NEW c, NEW what \in {"mine", "frame"}, NEW d, d # c,
         Mark(requests, c, what) \subseteq requests',
         \A k \in requests' : k \in Mark(requests, c, what) \/ k.id = c
  PROVE  /\ OwnKept(d)
         /\ \A j \in requests' : Own(j, d) /\ j.is = "done" => j \in requests
<1>1. ASSUME NEW j \in requests', Own(j, d) PROVE j \in requests
  <2>1. j.id = d /\ j \in Mark(requests, c, what)
    BY <1>1 DEF Own
  <2>2. PICK k \in requests : j = IF k.id = c THEN NotedOf(k, what) ELSE k
    BY <2>1, MarkIs
  <2>3. k \in CallType /\ what \in {"mine", "frame", "reload"}
    BY DEF RequestsTyped, RequestTyped
  <2>4. k.id = c => j.id = c
    BY <2>2, <2>3, NotedIs
  <2>. QED BY <2>1, <2>2, <2>4
<1>2. ASSUME NEW k \in requests, Own(k, d) PROVE k \in requests'
  <2>1. k.id # c
    BY <1>2 DEF Own
  <2>2. PICK j \in Mark(requests, c, what) : j = IF k.id = c THEN NotedOf(k, what) ELSE k
    BY MarkIs
  <2>. QED BY <2>1, <2>2
<1>. QED BY <1>1, <1>2 DEF OwnKept

\* The request of another card is settled.
LEMMA OwnDropped ==
  ASSUME NEW k \in requests, NEW d, ~Own(k, d), requests' = requests \ {k}
  PROVE  /\ OwnKept(d)
         /\ \A j \in requests' : Own(j, d) /\ j.is = "done" => j \in requests
BY DEF OwnKept

\* The rows are left alone.
LEMMA RowsAlone ==
  ASSUME UNCHANGED rows, NEW c
  PROVE  HomesKept(c)
BY DEF rows, HomesKept, Home, Gone

\* The server commits.
LEMMA CommitKeepsBoard ==
  ASSUME TypesInv, BoardOK, NEW f, Commits(f)
  PROVE  BoardOK'
<1> SUFFICES ASSUME Valid' PROVE ListsOK' /\ CreatesOK' /\ \A c \in Card : CardOK(c)'
  BY DEF BoardOK
<1>0. /\ RowsTyped /\ FramesTyped /\ RequestsTyped /\ Does(f) /\ f \in CardFrames
      /\ Trail' = Append(Trail, f) /\ UNCHANGED <<store, lastSeq, screen, fetch, strayed>>
  BY DEF TypesInv, Commits, Does
<1>1. /\ Unsure' <=> Unsure \/ Content(f)
      /\ \A c : Awaited(c)' <=> Awaited(c) \/ About(f, c)
      /\ \A c : MoveAwaited(c)' <=> MoveAwaited(c) \/ (f.card = c /\ f.type = "card.moved")
      /\ \A l : DropAwaited(l)' <=> DropAwaited(l) \/ (f.type = "list.deleted" /\ f.list = l)
  BY <1>0, TrailGrows
<1>2. lists' = lists /\ cards' = cards /\ moveVersions' = moveVersions /\ needsResync' = needsResync
      /\ strayed' = strayed /\ screen' = screen
  BY <1>0 DEF store
<1>3. Valid /\ ~Content(f)
  BY <1>1, <1>2 DEF Valid
<1>4. ListsOK /\ CreatesOK /\ \A c \in Card : CardOK(c)
  BY <1>3 DEF BoardOK
<1>5. ListsOK'
  <2>1. open' \subseteq open /\ \A l \in open : l \in open' \/ (f.type = "list.deleted" /\ f.list = l)
    BY <1>0 DEF Does
  <2>. QED BY <1>1, <1>2, <1>4, <2>1 DEF ListsOK
<1>6. requests' = requests \/ \E k \in requests : \E key \in Nat : \E c \in Card :
        requests' = (requests \ {k}) \cup {Answered(k, "done", c, key)} /\ About(f, k.id)
  BY <1>3 DEF Commits
<1>7. ASSUME NEW c, About(f, c) PROVE c \in Card
  BY <1>0, <1>7, FrameParts DEF About
<1>8. CreatesOK'
  <2>1. CASE requests' = requests
    BY <1>2, <1>4, <2>1 DEF CreatesOK
  <2>2. ASSUME NEW k \in requests, NEW key \in Nat, NEW c \in Card, About(f, k.id),
               requests' = (requests \ {k}) \cup {Answered(k, "done", c, key)}
        PROVE  CreatesOK'
    <3> DEFINE y == Answered(k, "done", c, key)
    <3>1. RequestTyped(k) /\ k \in CallType
      BY <1>0 DEF RequestsTyped, RequestTyped
    <3>2. y.op = k.op
      BY <3>1, AnsweredIs
    <3> HIDE DEF y
    <3>3. k.op # "create"
      BY <1>7, <2>2, <3>1, StoreAssumption DEF RequestTyped
    <3>4. \A j \in requests' : j \in requests \/ j = y
      BY <2>2 DEF y
    <3>. QED BY <1>2, <1>4, <3>2, <3>3, <3>4 DEF CreatesOK
  <2>. QED BY <1>6, <2>1, <2>2
<1>9. ASSUME NEW c \in Card PROVE CardOK(c)'
  <2>1. c # NoCard /\ ListsSpare(NoCard)
    BY <1>2, ListsSame, StoreAssumption
  <2>2. ASSUME ~Awaited(c)'
        PROVE  /\ OwnKept(c) /\ HomesKept(c)
               /\ \A k \in requests' : Own(k, c) /\ k.is = "done" => k \in requests
    <3>1. ~About(f, c)
      BY <1>1, <2>2
    <3>2. HomesKept(c)
      BY <1>0, <1>3, <3>1, HomeKept DEF HomesKept, Content
    <3>3. CASE requests' = requests
      BY <3>2, <3>3 DEF OwnKept
    <3>4. ASSUME NEW k \in requests, NEW key \in Nat, NEW d \in Card, About(f, k.id),
                 requests' = (requests \ {k}) \cup {Answered(k, "done", d, key)}
          PROVE  /\ OwnKept(c)
                 /\ \A j \in requests' : Own(j, c) /\ j.is = "done" => j \in requests
      <4>1. k.id # c
        BY <3>1, <3>4
      <4>. QED BY <1>0, <3>4, <4>1, OwnAnswered
    <3>. QED BY <1>6, <3>2, <3>3, <3>4
  <2>. QED BY <1>1, <1>2, <1>4, <2>1, <2>2, Bystander
<1>. QED BY <1>5, <1>8, <1>9

\* A step that leaves the view, the rows and the trail alone, and may answer a
\* request with a failure.
LEMMA FailureKeepsBoard ==
  ASSUME TypesInv, BoardOK, UNCHANGED <<rows, store, strayed, screen>>, Trail' = Trail, lastSeq' = lastSeq,
         \/ requests' = requests
         \/ \E k \in requests : requests' = (requests \ {k}) \cup {Answered(k, "failed", NoCard, 0)}
  PROVE  BoardOK'
<1> SUFFICES ASSUME Valid' PROVE ListsOK' /\ CreatesOK' /\ \A c \in Card : CardOK(c)'
  BY DEF BoardOK
<1>1. /\ Unsure' <=> Unsure
      /\ \A c : (Awaited(c)' <=> Awaited(c)) /\ (MoveAwaited(c)' <=> MoveAwaited(c))
      /\ \A l : DropAwaited(l)' <=> DropAwaited(l)
  BY TrailSame
<1>2. lists' = lists /\ cards' = cards /\ moveVersions' = moveVersions /\ needsResync' = needsResync
      /\ strayed' = strayed /\ screen' = screen /\ open' = open
  BY DEF store, rows
<1>4. ListsOK /\ CreatesOK /\ \A c \in Card : CardOK(c)
  BY <1>1, <1>2 DEF BoardOK, Valid
<1>5. ListsOK'
  BY <1>1, <1>2, <1>4 DEF ListsOK
<1>6. RequestsTyped
  BY DEF TypesInv
<1>8. CreatesOK'
  <2>1. CASE requests' = requests
    BY <1>2, <1>4, <2>1 DEF CreatesOK
  <2>2. ASSUME NEW k \in requests, requests' = (requests \ {k}) \cup {Answered(k, "failed", NoCard, 0)}
        PROVE  CreatesOK'
    <3> DEFINE y == Answered(k, "failed", NoCard, 0)
    <3>1. k \in CallType
      BY <1>6 DEF RequestsTyped, RequestTyped
    <3>2. y.is = "failed"
      BY <3>1, AnsweredIs
    <3> HIDE DEF y
    <3>4. \A j \in requests' : j \in requests \/ j = y
      BY <2>2 DEF y
    <3>. QED BY <1>2, <1>4, <3>2, <3>4 DEF CreatesOK
  <2>. QED BY <2>1, <2>2
<1>9. ASSUME NEW c \in Card PROVE CardOK(c)'
  <2>1. c # NoCard /\ ListsSpare(NoCard)
    BY <1>2, ListsSame, StoreAssumption
  <2>2. HomesKept(c)
    BY RowsAlone
  <2>3. CASE requests' = requests
    <3>1. OwnKept(c)
      BY <2>3 DEF OwnKept
    <3>. QED BY <1>1, <1>2, <1>4, <2>1, <2>2, <2>3, <3>1, Bystander
  <2>4. ASSUME NEW k \in requests, requests' = (requests \ {k}) \cup {Answered(k, "failed", NoCard, 0)}
        PROVE  CardOK(c)'
    <3>1. OwnKept(c) /\ \A j \in requests' : Own(j, c) /\ j.is = "done" => j \in requests
      BY <1>6, <2>4, OwnAnswered
    <3>. QED BY <1>1, <1>2, <1>4, <2>1, <2>2, <3>1, Bystander
  <2>. QED BY <2>3, <2>4
<1>. QED BY <1>5, <1>8, <1>9

\* A move under way has a version no later than the card's.
LEMMA OwnVersions ==
  ASSUME TypesInv, VersionsInv, NEW k \in requests, NEW c, Own(k, c)
  PROVE  /\ c \in Id /\ k.version \in Nat /\ moveVersions[c] \in Nat /\ k.version <= moveVersions[c]
         /\ k.since # {} => k.version < moveVersions[c]
<1>1. k \in CallType /\ MoveOK(k, moveVersions) /\ moveVersions \in [Id -> Nat]
  BY DEF TypesInv, RequestsTyped, RequestTyped, VersionsInv
<1>2. "reload" \notin k.since
  BY DEF Own
<1>3. k.op = "move" /\ k.id = c
  BY DEF Own
<1>. QED BY <1>1, <1>2, <1>3 DEF MoveOK

\* The card that is dragged.
LEMMA DraggedPlaced ==
  ASSUME TypesInv, VersionsInv, NEW c, Placed(c), NEW from \in DOMAIN lists, NEW to \in DOMAIN lists,
         Has(lists[from], c), NEW k, RequestTyped(k), c \in Id,
         requests' = Mark(requests, c, "mine") \cup {k},
         k.op = "move", k.id = c, k.from = from, k.to = to,
         k.version = moveVersions[c] + 1, k.since = {}, k.is = "sent",
         moveVersions'[c] = moveVersions[c] + 1, UNCHANGED rows,
         DOMAIN lists' = DOMAIN lists, Has(lists'[to], c),
         \A l \in DOMAIN lists : Has(lists'[l], c) => l = to
  PROVE  Placed(c)'
<1>0. RequestsTyped /\ HomesKept(c)
  BY RowsAlone DEF TypesInv
<1>1. PICK n : n = moveVersions[c]
  OBVIOUS
<1>2. n \in Nat /\ k.version = n + 1 /\ moveVersions'[c] = n + 1
  BY <1>1 DEF VersionsInv
<1>3. ASSUME NEW j \in Mark(requests, c, "mine"), Own(j, c)
      PROVE  \E r \in requests : /\ Own(r, c) /\ j.version = r.version /\ j.is = r.is
                                 /\ j.from = r.from /\ j.to = r.to
  <2>1. PICK r \in requests :
          /\ j.op = r.op /\ j.id = r.id /\ j.version = r.version /\ j.is = r.is
          /\ j.from = r.from /\ j.to = r.to
          /\ j.since = IF r.id = c THEN r.since \cup {"mine"} ELSE r.since
    BY <1>0, MarkedIs
  <2>2. Own(r, c)
    BY <1>3, <2>1 DEF Own
  <2>. QED BY <2>1, <2>2
<1>4. ASSUME NEW r \in requests, Own(r, c)
      PROVE  \E j \in Mark(requests, c, "mine") :
               Own(j, c) /\ j.version = r.version /\ j.from = r.from /\ j.to = r.to
  <2>1. PICK j \in Mark(requests, c, "mine") :
          /\ j.op = r.op /\ j.id = r.id /\ j.version = r.version /\ j.is = r.is
          /\ j.from = r.from /\ j.to = r.to
          /\ j.since = IF r.id = c THEN r.since \cup {"mine"} ELSE r.since
    BY <1>0, MarkedAll
  <2>2. Own(j, c)
    BY <1>4, <2>1 DEF Own
  <2>. QED BY <2>1, <2>2
<1>5. \A r \in requests : Own(r, c) => r.version \in Nat /\ r.version <= n
  BY <1>1, OwnVersions
<1>6. Own(k, c)
  BY DEF Own
<1>7. ASSUME NEW v, v \in Nat, v <= n + 1, NEW l, End(c, v, l) PROVE End(c, v, l)'
  <2>1. \A r \in Past(c, v) : \E j \in Past(c, v)' : j.version = r.version /\ j.to = r.to
    BY <1>4 DEF Past
  <2>2. \A j \in Past(c, v)' : j \in requests' /\ Own(j, c) /\ j.version < v
    BY DEF Past, Own
  <2>3. ~(k.version < v)
    BY <1>2, <1>7
  <2>4. \A j \in Past(c, v)' : \E r \in Past(c, v) : j.version = r.version /\ j.to = r.to
    BY <1>3, <2>2, <2>3 DEF Past
  <2>. QED BY <1>0, <1>7, <2>1, <2>4, EndFollows
<1>8. ASSUME NEW j \in requests', Own(j, c) PROVE j.is # "done" /\ End(c, j.version, j.from)'
  <2>1. CASE j = k
    <3>1. PICK v : v = n + 1
      OBVIOUS
    <3>2. End(c, v, from)
      BY <1>1, <3>1 DEF Placed
    <3>3. End(c, v, from)'
      BY <1>2, <1>7, <3>1, <3>2
    <3>. QED BY <1>2, <2>1, <3>1, <3>3
  <2>2. CASE j # k
    <3>1. PICK r \in requests : /\ Own(r, c) /\ j.version = r.version /\ j.is = r.is
                                /\ j.from = r.from /\ j.to = r.to
      BY <1>3, <1>8, <2>2
    <3>2. r.is # "done" /\ End(c, r.version, r.from) /\ r.version \in Nat /\ r.version <= n
      BY <1>5, <3>1 DEF Placed
    <3>3. End(c, r.version, r.from)'
      BY <1>2, <1>7, <3>2
    <3>. QED BY <3>1, <3>2, <3>3
  <2>. QED BY <2>1, <2>2
<1>9. End(c, moveVersions[c] + 1, to)'
  <2> DEFINE Q == Past(c, moveVersions[c] + 1)'
  <2>1. \A j : j \in Q <=> j \in requests' /\ Own(j, c) /\ j.version < n + 2
    BY <1>2 DEF Past, Own
  <2>2. k \in Q
    BY <1>2, <1>6, <2>1
  <2>3. \A j \in Q : j.version <= k.version
    BY <1>2, <1>3, <1>5, <2>1
  <2>4. End(c, moveVersions[c] + 1, to)' <=>
          IF Q = {} THEN Home(c, to)' ELSE \E i \in Q : i.to = to /\ \A j \in Q : j.version <= i.version
    BY DEF End
  <2> HIDE DEF Q
  <2>. QED BY <2>2, <2>3, <2>4
<1>10. Listed(c)'
  BY DEF Listed
<1>11. ASSUME NEW l \in DOMAIN lists', Has(lists'[l], c) PROVE End(c, moveVersions[c] + 1, l)'
  BY <1>9, <1>11
<1>. QED BY <1>8, <1>10, <1>11 DEF Placed, Own

\* The user drags a card.
LEMMA DragKeepsBoard ==
  ASSUME TypesInv, VersionsInv, BoardOK, NEW c \in Id, NEW from \in DOMAIN lists, NEW to \in DOMAIN lists,
         NEW i \in DropPlaces(from, to), MoveCard(c, from, to, i)
  PROVE  BoardOK'
<1> SUFFICES ASSUME Valid' PROVE ListsOK' /\ CreatesOK' /\ \A d \in Card : CardOK(d)'
  BY DEF BoardOK
<1>0. UNCHANGED <<rows, channel, needsResync, lastSeq, screen, fetch, strayed>> /\ SetKey(c, 0)
  BY DEF MoveCard
<1>1. Trail' = Trail /\ open' = open
  BY <1>0 DEF Trail, channel, rows
<1>2. /\ Unsure' <=> Unsure
      /\ \A d : (Awaited(d)' <=> Awaited(d)) /\ (MoveAwaited(d)' <=> MoveAwaited(d))
      /\ \A l : DropAwaited(l)' <=> DropAwaited(l)
  BY <1>0, <1>1, TrailSame
<1>3. ListsOK /\ CreatesOK /\ \A d \in Card : CardOK(d)
  BY <1>0, <1>2 DEF BoardOK, Valid
<1>4. /\ i \in Nat \ {0} /\ Has(lists[from], c) /\ c \in DOMAIN cards
      /\ lists' = Carry(c, from, to, i)
      /\ moveVersions' = [moveVersions EXCEPT ![c] = moveVersions[c] + 1]
  BY DragSends
<1>5. PICK k : /\ requests' = Mark(requests, c, "mine") \cup {k}
               /\ RequestTyped(k)
               /\ k.op = "move" /\ k.id = c /\ k.from = from /\ k.to = to
               /\ k.version = moveVersions[c] + 1 /\ k.since = {} /\ k.is = "sent"
  BY DragSends
<1>6. ListsTyped(lists) /\ CardsTyped(cards) /\ moveVersions \in [Id -> Nat] /\ RequestsTyped
  BY ViewParts DEF TypesInv
<1>7. /\ DOMAIN lists' = DOMAIN lists
      /\ ListsSpare(c) /\ Has(lists'[to], c)
      /\ Single(lists, c) => Single(lists', c) /\ \A l \in DOMAIN lists : Has(lists'[l], c) => l = to
  BY <1>4, <1>6, CarryMoves DEF ListsSpare
<1>8. DOMAIN cards' = DOMAIN cards
  BY <1>0, <1>6, SetKeyTyped
<1>9. ListsOK'
  BY <1>1, <1>2, <1>3, <1>7 DEF ListsOK
<1>10. CreatesOK'
  <2> SUFFICES ASSUME NEW j \in requests', j.op = "create", j.is = "done", NEW l \in DOMAIN lists
               PROVE  ~Has(lists'[l], j.id)
    BY <1>7 DEF CreatesOK
  <2>1. j \in Mark(requests, c, "mine")
    BY <1>5
  <2>2. PICK r \in requests :
          /\ j.op = r.op /\ j.id = r.id /\ j.version = r.version /\ j.is = r.is
          /\ j.from = r.from /\ j.to = r.to
          /\ j.since = IF r.id = c THEN r.since \cup {"mine"} ELSE r.since
    BY <1>6, <2>1, MarkedIs
  <2>3. ~Has(lists[l], j.id) /\ ~Has(lists[from], j.id)
    BY <1>3, <2>2 DEF CreatesOK
  <2>4. j.id # c
    BY <1>4, <2>3
  <2>. QED BY <1>7, <2>3, <2>4, Spared
<1>11. ASSUME NEW d \in Card, d # c PROVE CardOK(d)'
  <2>1. moveVersions'[d] = moveVersions[d]
    BY <1>4, <1>6, <1>11 DEF Id
  <2>2. OwnKept(d) /\ \A j \in requests' : Own(j, d) /\ j.is = "done" => j \in requests
    BY <1>5, <1>6, <1>11, OthersMarked
  <2>3. HomesKept(d)
    BY <1>0, RowsAlone
  <2>. QED BY <1>0, <1>2, <1>3, <1>7, <1>8, <1>11, <2>1, <2>2, <2>3, Bystander
<1>12. ASSUME c \in Card PROVE CardOK(c)'
  <2>1. CardOK(c)
    BY <1>3, <1>12
  <2>2. ~MoveAwaited(c)' => Single(lists', c) /\ c \in DOMAIN cards'
    BY <1>2, <1>4, <1>7, <1>8, <2>1 DEF CardOK
  <2>3. ASSUME c \notin strayed', ~Awaited(c)' PROVE Placed(c)'
    <3>1. ~Awaited(c) /\ ~MoveAwaited(c) /\ c \notin strayed
      BY <1>0, <1>2, <2>3 DEF Awaited, MoveAwaited, About
    <3>2. Placed(c) /\ Single(lists, c)
      BY <2>1, <3>1 DEF CardOK
    <3>3. moveVersions'[c] = moveVersions[c] + 1
      BY <1>4, <1>6
    <3>. QED BY <1>0, <1>4, <1>5, <1>7, <3>2, <3>3, DraggedPlaced
  <2>. QED BY <2>2, <2>3 DEF CardOK, Single, Once, Has
<1>. QED BY <1>9, <1>10, <1>11, <1>12

\* An id is added at the end.
LEMMA AppendSpares ==
  ASSUME NEW X, NEW s \in Seq(X), NEW e \in X
  PROVE  Spares(s, Append(s, e), e)
<1> DEFINE t == Append(s, e)
<1>1. Len(s) \in Nat /\ DOMAIN s = 1 .. Len(s)
  BY LenProperties
<1>2. /\ t \in Seq(X) /\ Len(t) = Len(s) + 1 /\ t[Len(s) + 1] = e
      /\ \A i \in 1 .. Len(s) : t[i] = s[i]
  BY AppendProperties
<1>3. DOMAIN t = 1 .. Len(s) + 1
  BY <1>2, LenProperties
<1> HIDE DEF t
<1>4. \A i \in DOMAIN t : i = Len(s) + 1 \/ i \in DOMAIN s
  BY <1>1, <1>3
<1>5. \A i \in DOMAIN s : i \in DOMAIN t /\ t[i] = s[i]
  BY <1>1, <1>2, <1>3
<1>6. ASSUME NEW d, d # e PROVE (Has(t, d) <=> Has(s, d)) /\ (Once(s, d) => Once(t, d))
  BY <1>2, <1>4, <1>5, <1>6 DEF Has, Once
<1>. QED BY <1>6 DEF Spares, t

\* The user adds a card.
LEMMA AddKeepsBoard ==
  ASSUME TypesInv, BoardOK, NEW t \in Temp, NEW l \in DOMAIN lists, AddCard(t, l)
  PROVE  BoardOK'
<1> SUFFICES ASSUME Valid' PROVE ListsOK' /\ CreatesOK' /\ \A d \in Card : CardOK(d)'
  BY DEF BoardOK
<1>0. /\ UNCHANGED <<rows, channel, moveVersions, needsResync, lastSeq, screen, fetch, strayed>>
      /\ lists' = [lists EXCEPT ![l] = Append(lists[l], t)] /\ cards' = With(cards, t, 0)
      /\ \A k \in requests : k.id # t
  BY DEF AddCard
<1>1. Trail' = Trail /\ open' = open
  BY <1>0 DEF Trail, channel, rows
<1>2. /\ Unsure' <=> Unsure
      /\ \A d : (Awaited(d)' <=> Awaited(d)) /\ (MoveAwaited(d)' <=> MoveAwaited(d))
      /\ \A m : DropAwaited(m)' <=> DropAwaited(m)
  BY <1>0, <1>1, TrailSame
<1>3. ListsOK /\ CreatesOK /\ \A d \in Card : CardOK(d)
  BY <1>0, <1>2 DEF BoardOK, Valid
<1>4. PICK k : /\ requests' = requests \cup {k} /\ RequestTyped(k)
               /\ k.op = "create" /\ k.id = t /\ k.is = "sent"
  BY AddSends
<1>5. ListsTyped(lists) /\ t \in Id /\ t \notin Card
  BY ViewParts, StoreAssumption DEF TypesInv, Id
<1>6. ListsSpare(t)
  <2>1. lists[l] \in Seq(Id)
    BY <1>5 DEF ListsTyped
  <2>2. Spares(lists[l], Append(lists[l], t), t)
    BY <1>5, <2>1, AppendSpares
  <2>3. \A m \in DOMAIN lists : Spares(lists[m], lists[m], t)
    BY DEF Spares
  <2>. QED BY <1>0, <2>2, <2>3 DEF ListsSpare
<1>7. DOMAIN cards' = DOMAIN cards \cup {t}
  BY <1>0 DEF With
<1>8. DOMAIN lists' = DOMAIN lists
  BY <1>6 DEF ListsSpare
<1>9. ListsOK'
  BY <1>1, <1>2, <1>3, <1>8 DEF ListsOK
<1>10. CreatesOK'
  <2> SUFFICES ASSUME NEW j \in requests', j.op = "create", j.is = "done", NEW m \in DOMAIN lists
               PROVE  ~Has(lists'[m], j.id)
    BY <1>8 DEF CreatesOK
  <2>1. j \in requests
    BY <1>4
  <2>2. ~Has(lists[m], j.id) /\ j.id # t
    BY <1>0, <1>3, <2>1 DEF CreatesOK
  <2>. QED BY <1>6, <2>2, Spared
<1>11. ASSUME NEW d \in Card PROVE CardOK(d)'
  <2>1. d # t
    BY <1>5
  <2>2. OwnKept(d) /\ \A j \in requests' : Own(j, d) /\ j.is = "done" => j \in requests
    BY <1>4 DEF OwnKept, Own
  <2>3. HomesKept(d)
    BY <1>0, RowsAlone
  <2>. QED BY <1>0, <1>2, <1>3, <1>6, <1>7, <2>1, <2>2, <2>3, Bystander
<1>. QED BY <1>9, <1>10, <1>11

\* No two moves of a card have the same version, and a temporary card waits
\* for an answer.
Unique ==
  \A j, k \in requests :
    j.op = "move" /\ k.op = "move" /\ j.id = k.id /\ j.version = k.version
    /\ "reload" \notin j.since /\ "reload" \notin k.since => j = k
TempsOK == \A t \in DOMAIN cards : t \in Temp => \E k \in requests : k.op = "create" /\ k.id = t

\* The latest move of a card failed, and takes it back.
LEMMA RolledBackPlaced ==
  ASSUME TypesInv, VersionsInv, Unique, NEW k \in requests, NEW c, Own(k, c), Placed(c),
         moveVersions[c] = k.version, UNCHANGED <<rows, moveVersions>>, requests' = requests \ {k},
         DOMAIN lists' = DOMAIN lists,
         IF Has(lists[k.to], c)
           THEN k.from \in DOMAIN lists /\ Has(lists'[k.from], c)
                /\ \A l \in DOMAIN lists : Has(lists'[l], c) => l = k.from
           ELSE lists' = lists
  PROVE  Placed(c)'
<1>0. HomesKept(c) /\ moveVersions' = moveVersions
  BY RowsAlone
<1>1. PICK n : n = moveVersions[c]
  OBVIOUS
<1>2. n = k.version /\ n \in Nat
  BY <1>1, OwnVersions
<1>3. \A j \in requests : Own(j, c) => j.version \in Nat /\ j.version <= n
  BY <1>1, OwnVersions
<1>4. \A j \in requests : Own(j, c) /\ j.version = n => j = k
  BY <1>2 DEF Unique, Own
<1>5. ASSUME NEW v, v \in Nat, NEW l, IF v <= n THEN End(c, v, l) ELSE End(c, n, l) PROVE End(c, v, l)'
  <2> DEFINE P == Past(c, IF v <= n THEN v ELSE n)
             Q == Past(c, v)'
  <2>1. \A j : j \in Q <=> j \in requests /\ j # k /\ Own(j, c) /\ j.version < v
    BY DEF Past, Own
  <2>2. \A j : j \in P <=> j \in requests /\ Own(j, c) /\ j.version < (IF v <= n THEN v ELSE n)
    BY DEF Past
  <2>3. P = Q
    <3>1. \A j \in P : j \in Q
      BY <1>2, <1>3, <1>5, <2>1, <2>2
    <3>2. \A j \in Q : j \in P
      BY <1>2, <1>3, <1>4, <1>5, <2>1, <2>2
    <3>. QED BY <3>1, <3>2
  <2>4. End(c, IF v <= n THEN v ELSE n, l)
    BY <1>5
  <2>5. IF P = {} THEN Home(c, l) ELSE \E i \in P : i.to = l /\ \A j \in P : j.version <= i.version
    BY <2>4 DEF End
  <2>6. End(c, v, l)' <=>
          IF Q = {} THEN Home(c, l)' ELSE \E i \in Q : i.to = l /\ \A j \in Q : j.version <= i.version
    BY DEF End
  <2> HIDE DEF P, Q
  <2>. QED BY <1>0, <2>3, <2>5, <2>6 DEF HomesKept
<1>6. ASSUME NEW j \in requests', Own(j, c) PROVE j.is # "done" /\ End(c, j.version, j.from)'
  <2>1. j \in requests /\ j.version \in Nat /\ j.version <= n /\ j.is # "done" /\ End(c, j.version, j.from)
    BY <1>3, <1>6 DEF Placed
  <2>. QED BY <1>5, <2>1
<1>7. ASSUME NEW l \in DOMAIN lists', Has(lists[l], c) PROVE l = k.to
  <2>1. PICK v : v = n + 1
    OBVIOUS
  <2>2. End(c, v, l)
    BY <1>1, <1>7, <2>1 DEF Placed
  <2>3. k \in Past(c, v)
    BY <1>2, <2>1 DEF Past
  <2>4. PICK i \in Past(c, v) : i.to = l /\ \A j \in Past(c, v) : j.version <= i.version
    BY <2>2, <2>3 DEF End
  <2>5. i \in requests /\ Own(i, c) /\ i.version >= n
    BY <1>2, <2>3, <2>4 DEF Past
  <2>6. i = k
    BY <1>2, <1>3, <1>4, <2>5
  <2>. QED BY <2>4, <2>6
<1>8. CASE Has(lists[k.to], c)
  <2>1. End(c, n, k.from)
    BY <1>2 DEF Placed
  <2>2. PICK v : v = n + 1
    OBVIOUS
  <2>3. End(c, v, k.from)'
    <3>1. v \in Nat /\ ~(v <= n)
      BY <1>2, <2>2
    <3>2. IF v <= n THEN End(c, v, k.from) ELSE End(c, n, k.from)
      BY <2>1, <3>1
    <3>. QED BY <1>5, <3>1, <3>2
  <2>4. End(c, moveVersions[c] + 1, k.from)'
    <3>1. v = moveVersions'[c] + 1
      BY <1>0, <1>1, <2>2
    <3>. QED BY <2>3, <3>1 DEF End, Past
  <2>5. Listed(c)'
    BY <1>8 DEF Listed
  <2>. QED BY <1>6, <1>8, <2>4, <2>5 DEF Placed, Own
<1>9. CASE ~Has(lists[k.to], c)
  <2>1. \A l \in DOMAIN lists' : ~Has(lists'[l], c)
    BY <1>7, <1>9
  <2>2. ~Listed(c)
    BY <1>9, <2>1 DEF Listed
  <2>3. row'[c] = Gone
    BY <2>2 DEF Placed, rows
  <2>. QED BY <1>6, <2>1, <2>3 DEF Placed, Own, Gone
<1>. QED BY <1>8, <1>9

\* The view after an answer, but for the card it is about.
LEMMA SettleSpares ==
  ASSUME TypesInv, CreatesOK, NEW k \in requests, Settle(k)
  PROVE  /\ ListsSpare(k.id) /\ CreatesOK'
         /\ \A c \in Card : c \in DOMAIN cards => c \in DOMAIN cards'
         /\ strayed \subseteq strayed'
<1>0. ListsTyped(lists) /\ CardsTyped(cards) /\ RequestTyped(k) /\ k \in CallType /\ requests' = requests \ {k}
  BY ViewParts DEF TypesInv, RequestsTyped, RequestTyped, Settle
<1>1. k.id \in Id /\ k.from \in List /\ k.to \in List /\ k.index \in Nat
      /\ k.minted \in Nat /\ k.key \in Nat
  BY <1>0 DEF CallType
<1>2. ASSUME DOMAIN lists' = DOMAIN lists, \A l \in DOMAIN lists : lists'[l] = lists[l]
      PROVE  ListsSpare(k.id) /\ CreatesOK'
  <2>1. CreatesOK'
    BY <1>0, <1>2 DEF CreatesOK
  <2>. QED BY <1>2, <2>1 DEF ListsSpare, Spares
<1>3. ASSUME ListsSpare(k.id), \A l \in DOMAIN lists : ~Has(lists[l], k.id) => ~Has(lists'[l], k.id)
      PROVE  CreatesOK'
  <2> SUFFICES ASSUME NEW j \in requests, j.op = "create", j.is = "done", NEW l \in DOMAIN lists
               PROVE  ~Has(lists'[l], j.id)
    BY <1>0, <1>3 DEF CreatesOK, ListsSpare
  <2>1. ~Has(lists[l], j.id)
    BY DEF CreatesOK
  <2>. QED BY <1>3, <2>1, Spared
<1>4. CASE MoveStored(k)
  <2>1. lists' = lists /\ strayed' = strayed /\ (SetKey(k.id, k.minted) \/ cards' = cards)
    BY <1>4 DEF MoveStored
  <2>2. DOMAIN cards' = DOMAIN cards
    BY <1>0, <1>1, <2>1, SetKeyTyped
  <2>. QED BY <1>2, <2>1, <2>2
<1>5. CASE MoveFailed(k)
  <2>1. (SetKey(k.id, k.key) \/ cards' = cards) /\ strayed \subseteq strayed'
    BY <1>5 DEF MoveFailed
  <2>2. DOMAIN cards' = DOMAIN cards
    BY <1>0, <1>1, <2>1, SetKeyTyped
  <2>3. CASE lists' = lists
    BY <1>2, <2>1, <2>2, <2>3
  <2>4. CASE lists' # lists
    <3>1. /\ k.from \in DOMAIN lists /\ k.to \in DOMAIN lists /\ Has(lists[k.to], k.id)
          /\ lists' = Carry(k.id, k.to, k.from, k.index)
      BY <1>5, <2>4 DEF MoveFailed, ToSet, Has
    <3>2. k.index \in Nat \ {0}
      BY <1>0, <1>1, <1>5 DEF MoveFailed, RequestTyped
    <3>3. ListsSpare(k.id)
      BY <1>0, <1>1, <3>1, <3>2, CarryMoves DEF ListsSpare
    <3>4. CreatesOK'
      <4> SUFFICES ASSUME NEW j \in requests, j.op = "create", j.is = "done", NEW l \in DOMAIN lists
                   PROVE  ~Has(lists'[l], j.id)
        BY <1>0, <3>3 DEF CreatesOK, ListsSpare
      <4>1. ~Has(lists[l], j.id) /\ j.id # k.id
        BY <3>1 DEF CreatesOK
      <4>. QED BY <3>3, <4>1, Spared
    <3>. QED BY <2>1, <2>2, <3>3, <3>4
  <2>. QED BY <2>3, <2>4
<1>6. CASE CardCreated(k)
  <2>1. \A l \in DOMAIN lists : ~Has(lists[l], k.id)
    BY <1>6 DEF CardCreated, CreatesOK
  <2>2. DOMAIN lists' = DOMAIN lists /\ \A l \in DOMAIN lists : lists'[l] = lists[l]
    <3>1. CASE k.to \in DOMAIN lists
      <4> DEFINE s == lists[k.to]
                 u == [i \in DOMAIN s |-> IF s[i] = k.id THEN k.card ELSE s[i]]
      <4>1. lists' = [lists EXCEPT ![k.to] = u]
        BY <1>6, <3>1 DEF CardCreated
      <4>2. \A i \in DOMAIN s : s[i] # k.id
        BY <2>1, <3>1 DEF Has
      <4>3. s \in [1 .. Len(s) -> Id]
        BY <1>0, <3>1, LenProperties DEF ListsTyped
      <4>4. u = s
        BY <4>2, <4>3
      <4> HIDE DEF u
      <4>5. lists' = [lists EXCEPT ![k.to] = lists[k.to]]
        BY <4>1, <4>4
      <4>. QED BY <4>5
    <3>2. CASE k.to \notin DOMAIN lists
      BY <1>6, <3>2 DEF CardCreated
    <3>. QED BY <3>1, <3>2
  <2>3. strayed' = strayed /\ DOMAIN cards' = (DOMAIN cards \ {k.id}) \cup {k.card}
    BY <1>6 DEF CardCreated, With
  <2>4. k.id \notin Card
    BY <1>0, <1>6, StoreAssumption DEF RequestTyped, CardCreated
  <2>. QED BY <1>2, <2>2, <2>3, <2>4
<1>7. CASE CreateFailed(k)
  <2>1. strayed' = strayed /\ DOMAIN cards' = DOMAIN cards \ {k.id}
    BY <1>7 DEF CreateFailed
  <2>2. k.id \notin Card
    BY <1>0, <1>7, StoreAssumption DEF RequestTyped, CreateFailed
  <2>3. CASE k.to \in DOMAIN lists
    <3>1. lists' = [lists EXCEPT ![k.to] = Without(lists[k.to], k.id)]
      BY <1>7, <2>3 DEF CreateFailed
    <3>2. Spares(lists[k.to], Without(lists[k.to], k.id), k.id) /\ ~Has(Without(lists[k.to], k.id), k.id)
      BY <1>0, <2>3, WithoutSpares DEF ListsTyped
    <3>3. DOMAIN lists' = DOMAIN lists
          /\ \A l \in DOMAIN lists : lists'[l] = IF l = k.to THEN Without(lists[k.to], k.id) ELSE lists[l]
      BY <3>1
    <3>4. ListsSpare(k.id)
      <4>1. \A l \in DOMAIN lists : Spares(lists[l], lists[l], k.id)
        BY DEF Spares
      <4>. QED BY <3>2, <3>3, <4>1 DEF ListsSpare
    <3>5. \A l \in DOMAIN lists : ~Has(lists[l], k.id) => ~Has(lists'[l], k.id)
      BY <3>2, <3>3
    <3>. QED BY <1>3, <2>1, <2>2, <3>4, <3>5
  <2>4. CASE k.to \notin DOMAIN lists
    <3>1. lists' = lists
      BY <1>7, <2>4 DEF CreateFailed
    <3>. QED BY <1>2, <2>1, <2>2, <3>1
  <2>. QED BY <2>3, <2>4
<1>. QED BY <1>4, <1>5, <1>6, <1>7 DEF Settle

\* The card that an answer is about.
LEMMA SettledCard ==
  ASSUME TypesInv, VersionsInv, Unique, NEW k \in requests, Settle(k), k.op = "move", NEW c, c = k.id,
         CardOK(c), Awaited(c)' <=> Awaited(c), MoveAwaited(c)' <=> MoveAwaited(c)
  PROVE  CardOK(c)'
<1>0. /\ ListsTyped(lists) /\ CardsTyped(cards) /\ RequestTyped(k) /\ k \in CallType
      /\ requests' = requests \ {k} /\ UNCHANGED <<rows, moveVersions>> /\ c \in Id
  BY ViewParts DEF TypesInv, RequestsTyped, RequestTyped, Settle, CallType
<1>1. HomesKept(c) /\ moveVersions' = moveVersions
  BY <1>0, RowsAlone
<1>2. ASSUME lists' = lists, DOMAIN cards' = DOMAIN cards, strayed \subseteq strayed',
             c \notin strayed' /\ Placed(c) => ~Own(k, c)
      PROVE  CardOK(c)'
  <2>1. Listed(c)' <=> Listed(c)
    BY <1>2 DEF Listed
  <2>2. ASSUME c \notin strayed', ~Awaited(c)' PROVE Placed(c)'
    <3>1. Placed(c) /\ ~Own(k, c)
      BY <1>2, <2>2 DEF CardOK
    <3>2. OwnKept(c) /\ \A j \in requests' : Own(j, c) /\ j.is = "done" => j \in requests
      BY <1>0, <3>1, OwnDropped
    <3>. QED BY <1>1, <1>2, <2>1, <3>1, <3>2, PlacedKept
  <2>. QED BY <1>2, <2>1, <2>2 DEF CardOK
<1>3. CASE MoveStored(k)
  <2>1. lists' = lists /\ strayed' = strayed /\ (SetKey(k.id, k.minted) \/ cards' = cards) /\ k.is = "done"
    BY <1>3 DEF MoveStored
  <2>2. DOMAIN cards' = DOMAIN cards
    BY <1>0, <2>1, SetKeyTyped DEF CallType
  <2>3. Placed(c) => ~Own(k, c)
    BY <2>1 DEF Placed
  <2>. QED BY <1>2, <2>1, <2>2, <2>3
<1>4. CASE MoveFailed(k)
  <2>1. DOMAIN cards' = DOMAIN cards
    <3>1. SetKey(k.id, k.key) \/ cards' = cards
      BY <1>4 DEF MoveFailed
    <3>. QED BY <1>0, <3>1, SetKeyTyped DEF CallType
  <2>2. CASE ~(IsLatest(k) /\ {k.from, k.to} \subseteq DOMAIN lists)
    <3>1. lists' = lists /\ strayed' = IF k.since \subseteq {"mine"} THEN strayed \cup {k.id} ELSE strayed
      BY <1>4, <2>2 DEF MoveFailed
    <3>2. c \notin strayed' => ~Own(k, c)
      BY <3>1 DEF Own
    <3>. QED BY <1>2, <2>1, <3>1, <3>2
  <2>3. CASE IsLatest(k) /\ {k.from, k.to} \subseteq DOMAIN lists
    <3>1. /\ k.from \in DOMAIN lists /\ k.to \in DOMAIN lists
          /\ moveVersions[c] = k.version /\ c \in DOMAIN cards
          /\ strayed' = IF "reload" \in k.since THEN strayed \cup {c} ELSE strayed
          /\ IF Has(lists[k.to], c) THEN lists' = Carry(c, k.to, k.from, k.index) ELSE lists' = lists
      BY <1>4, <2>3 DEF MoveFailed, IsLatest, ToSet, Has
    <3>2. k.index \in Nat \ {0}
      BY <1>0 DEF RequestTyped, CallType
    <3>3. /\ DOMAIN lists' = DOMAIN lists
          /\ Has(lists[k.to], c) => Has(lists'[k.from], c)
          /\ Single(lists, c) /\ Has(lists[k.to], c) =>
               Single(lists', c) /\ \A l \in DOMAIN lists : Has(lists'[l], c) => l = k.from
      BY <1>0, <3>1, <3>2, CarryMoves
    <3>4. Single(lists, c) => Single(lists', c)
      BY <3>1, <3>3
    <3>5. ASSUME c \notin strayed', ~Awaited(c)' PROVE Placed(c)'
      <4>1. Placed(c) /\ ~MoveAwaited(c)
        BY <3>1, <3>5 DEF CardOK, Awaited, MoveAwaited, About
      <4>2. Single(lists, c)
        BY <4>1 DEF CardOK
      <4>3. Own(k, c)
        <5>1. "reload" \notin k.since
          BY <3>1, <3>5
        <5>2. k.since = {}
          BY <1>0, <3>1, <5>1 DEF VersionsInv, MoveOK
        <5>. QED BY <5>2 DEF Own
      <4>. QED BY <1>0, <3>1, <3>3, <4>1, <4>2, <4>3, RolledBackPlaced
    <3>. QED BY <2>1, <3>1, <3>4, <3>5 DEF CardOK, Single, Once, Has
  <2>. QED BY <2>2, <2>3
<1>. QED BY <1>3, <1>4 DEF Settle, CardCreated, CreateFailed

\* A request is settled.
LEMMA SettleKeepsBoard ==
  ASSUME TypesInv, VersionsInv, Unique, BoardOK, NEW k \in requests, Settle(k)
  PROVE  BoardOK'
<1> SUFFICES ASSUME Valid' PROVE ListsOK' /\ CreatesOK' /\ \A d \in Card : CardOK(d)'
  BY DEF BoardOK
<1>0. UNCHANGED <<rows, channel, moveVersions, needsResync, lastSeq, screen, fetch>> /\ requests' = requests \ {k}
  BY DEF Settle
<1>1. Trail' = Trail /\ open' = open
  BY <1>0 DEF Trail, channel, rows
<1>2. /\ Unsure' <=> Unsure
      /\ \A d : (Awaited(d)' <=> Awaited(d)) /\ (MoveAwaited(d)' <=> MoveAwaited(d))
      /\ \A m : DropAwaited(m)' <=> DropAwaited(m)
  BY <1>0, <1>1, TrailSame
<1>3. ListsOK /\ CreatesOK /\ \A d \in Card : CardOK(d)
  BY <1>0, <1>2 DEF BoardOK, Valid
<1>4. /\ ListsSpare(k.id) /\ CreatesOK'
      /\ \A c \in Card : c \in DOMAIN cards => c \in DOMAIN cards'
      /\ strayed \subseteq strayed'
  BY <1>3, SettleSpares
<1>5. ListsOK'
  BY <1>1, <1>2, <1>3, <1>4 DEF ListsOK, ListsSpare
<1>6. ASSUME NEW d \in Card, d # k.id PROVE CardOK(d)'
  <2>1. OwnKept(d) /\ \A j \in requests' : Own(j, d) /\ j.is = "done" => j \in requests
    <3>1. ~Own(k, d)
      BY <1>6 DEF Own
    <3>. QED BY <1>0, <3>1, OwnDropped
  <2>2. HomesKept(d)
    BY <1>0, RowsAlone
  <2>3. moveVersions' = moveVersions
    BY <1>0
  <2>. QED BY <1>2, <1>3, <1>4, <1>6, <2>1, <2>2, <2>3, Bystander
<1>7. ASSUME NEW d \in Card, d = k.id PROVE CardOK(d)'
  <2>1. k.op = "move"
    BY <1>7, StoreAssumption DEF TypesInv, RequestsTyped, RequestTyped, CallType
  <2>. QED BY <1>2, <1>3, <1>7, <2>1, SettledCard
<1>. QED BY <1>4, <1>5, <1>6, <1>7

\* A frame about a card ends the moves of it under way.
LEMMA StaleEnds ==
  ASSUME TypesInv, NEW f, f.card \in Id, Stale(f)
  PROVE  /\ \A k \in requests' : ~Own(k, f.card)
         /\ \A d \in Card : d # f.card =>
              /\ OwnKept(d) /\ moveVersions'[d] = moveVersions[d]
              /\ \A j \in requests' : Own(j, d) /\ j.is = "done" => j \in requests
         /\ \A j \in requests' : \E r \in requests : j.op = r.op /\ j.id = r.id /\ j.is = r.is
<1>0. /\ RequestsTyped /\ moveVersions \in [Id -> Nat]
      /\ moveVersions' = [moveVersions EXCEPT ![f.card] = @ + 1]
      /\ requests' = Mark(requests, f.card, "frame")
  BY DEF TypesInv, ViewTyped, Stale
<1>1. ASSUME NEW j \in requests'
      PROVE  \E r \in requests :
               /\ j.op = r.op /\ j.id = r.id /\ j.version = r.version /\ j.is = r.is
               /\ j.from = r.from /\ j.to = r.to
               /\ j = IF r.id = f.card THEN NotedOf(r, "frame") ELSE r
               /\ j.since = IF r.id = f.card THEN r.since \cup {"frame"} ELSE r.since
  <2>0. PICK d : d = f.card
    OBVIOUS
  <2>1. j \in Mark(requests, d, "frame")
    BY <1>0, <2>0
  <2>2. \E r \in requests :
           /\ j.op = r.op /\ j.id = r.id /\ j.version = r.version /\ j.is = r.is
           /\ j.from = r.from /\ j.to = r.to
           /\ j = IF r.id = d THEN NotedOf(r, "frame") ELSE r
           /\ j.since = IF r.id = d THEN r.since \cup {"frame"} ELSE r.since
    BY <1>0, <2>1, MarkedIs
  <2>. QED BY <2>0, <2>2
<1>2. ASSUME NEW j \in requests', Own(j, f.card) PROVE FALSE
  <2>1. PICK r \in requests :
          j.id = r.id /\ j.since = IF r.id = f.card THEN r.since \cup {"frame"} ELSE r.since
    BY <1>1
  <2>2. j.id = f.card /\ j.since \subseteq {"mine"}
    BY <1>2 DEF Own
  <2>3. "frame" \in j.since
    BY <2>1, <2>2
  <2>. QED BY <2>2, <2>3
<1>3. ASSUME NEW d \in Card, d # f.card
      PROVE  /\ OwnKept(d) /\ moveVersions'[d] = moveVersions[d]
             /\ \A j \in requests' : Own(j, d) /\ j.is = "done" => j \in requests
  <2>1. moveVersions'[d] = moveVersions[d]
    BY <1>0, <1>3 DEF Id
  <2>. QED BY <1>0, <1>3, <2>1, OthersMarked
<1>4. \A j \in requests' : \E r \in requests : j.op = r.op /\ j.id = r.id /\ j.is = r.is
  BY <1>1
<1>. QED BY <1>2, <1>3, <1>4

\* A card whose last frame was applied, and which has no move under way.
LEMMA FramePlaced ==
  ASSUME NEW c, \A k \in requests' : ~Own(k, c),
         \A l \in DOMAIN lists' : Has(lists'[l], c) => Home(c, l)',
         row'[c] # Gone => Listed(c)'
  PROVE  Placed(c)'
<1>1. \A v, l : Home(c, l)' => End(c, v, l)'
  BY DEF End, Past, Own
<1>2. \A l \in DOMAIN lists' : Has(lists'[l], c) => End(c, moveVersions[c] + 1, l)'
  BY DEF End, Past, Own
<1>. QED BY <1>2 DEF Placed, Own, Gone

\* A card.moved frame that the view can apply.
LEMMA MovedKeepsBoard ==
  ASSUME TypesInv, NEW f \in CardFrames, CardMoved(f), f.card \in DOMAIN cards, f.list \in DOMAIN lists,
         UNCHANGED rows, ListsOK, CreatesOK, \A c \in Card : CardOK(c),
         \A d : Awaited(d) <=> Awaited(d)' \/ About(f, d),
         \A d : MoveAwaited(d) <=> MoveAwaited(d)' \/ (f.card = d /\ f.type = "card.moved"),
         \A l : DropAwaited(l) <=> DropAwaited(l)' \/ (f.type = "list.deleted" /\ f.list = l),
         ~Awaited(f.card)' => Home(f.card, f.list)
  PROVE  ListsOK' /\ CreatesOK' /\ \A d \in Card : CardOK(d)'
<1>0. f.card \in Card /\ f.card \in Id /\ f.type = "card.moved" /\ Stale(f)
      /\ lists' = Replaced(f.card, f.list, f.key) /\ cards' = [cards EXCEPT ![f.card] = f.key]
      /\ strayed' = strayed \ {f.card}
  BY FrameParts DEF CardMoved, Replaced
<1>1. PICK c : c = f.card
  OBVIOUS
<1>2. ListsTyped(lists) /\ open' = open
  BY ViewParts DEF TypesInv, rows
<1>3. /\ DOMAIN lists' = DOMAIN lists /\ ListsSpare(c)
      /\ \A l \in DOMAIN lists : Has(lists'[l], c) <=> l = f.list
      /\ Single(lists', c)
  BY <1>0, <1>1, <1>2, ReplacedIs DEF ListsSpare
<1>4. DOMAIN cards' = DOMAIN cards
  BY <1>0
<1>5. ListsOK'
  BY <1>0, <1>2, <1>3 DEF ListsOK
<1>6. CreatesOK'
  <2> SUFFICES ASSUME NEW j \in requests', j.op = "create", j.is = "done", NEW l \in DOMAIN lists
               PROVE  ~Has(lists'[l], j.id)
    BY <1>3 DEF CreatesOK
  <2>1. PICK r \in requests : j.op = r.op /\ j.id = r.id /\ j.is = r.is
    BY <1>0, StaleEnds
  <2>2. ~Has(lists[l], j.id) /\ j.id # c
    BY <1>0, <1>1, <2>1, StoreAssumption DEF CreatesOK, TypesInv, RequestsTyped, RequestTyped
  <2>. QED BY <1>3, <2>2, Spared
<1>7. ASSUME NEW d \in Card, d # c PROVE CardOK(d)'
  <2>1. /\ OwnKept(d) /\ moveVersions'[d] = moveVersions[d] /\ HomesKept(d)
        /\ \A j \in requests' : Own(j, d) /\ j.is = "done" => j \in requests
    BY <1>0, <1>1, <1>7, StaleEnds, RowsAlone
  <2>2. (Awaited(d) => Awaited(d)') /\ (MoveAwaited(d) => MoveAwaited(d)')
        /\ (d \in strayed => d \in strayed')
    BY <1>0, <1>1, <1>7 DEF About
  <2>. QED BY <1>3, <1>4, <1>7, <2>1, <2>2, Bystander
<1>8. CardOK(c)'
  <2>1. Single(lists', c) /\ c \in DOMAIN cards' /\ Listed(c)'
    BY <1>1, <1>3, <1>4 DEF Listed
  <2>2. ASSUME ~Awaited(c)' PROVE Placed(c)'
    <3>1. Home(c, f.list)
      BY <1>1, <2>2
    <3>2. \A l \in DOMAIN lists' : Has(lists'[l], c) => Home(c, l)'
      BY <1>3, <3>1 DEF Home, rows, Gone
    <3>. QED BY <1>0, <1>1, <2>1, <3>2, StaleEnds, FramePlaced
  <2>. QED BY <2>1, <2>2 DEF CardOK, Single, Once, Has
<1>. QED BY <1>5, <1>6, <1>7, <1>8

\* A card.deleted frame.
LEMMA DeletedKeepsBoard ==
  ASSUME TypesInv, NEW f \in CardFrames, CardDeleted(f),
         UNCHANGED rows, ListsOK, CreatesOK, \A c \in Card : CardOK(c),
         \A d : Awaited(d) <=> Awaited(d)' \/ About(f, d),
         \A d : MoveAwaited(d) <=> MoveAwaited(d)' \/ (f.card = d /\ f.type = "card.moved"),
         \A l : DropAwaited(l) <=> DropAwaited(l)' \/ (f.type = "list.deleted" /\ f.list = l),
         row[f.card] = Gone, ~Awaited(f.card)'
  PROVE  ListsOK' /\ CreatesOK' /\ \A d \in Card : CardOK(d)'
<1>0. f.card \in Card /\ f.card \in Id /\ f.type = "card.deleted" /\ Stale(f)
      /\ strayed' = strayed \ {f.card}
  BY FrameParts DEF CardDeleted
<1>1. PICK c : c = f.card
  OBVIOUS
<1>2. ListsTyped(lists) /\ open' = open
  BY ViewParts DEF TypesInv, rows
<1>3. /\ DOMAIN lists' = DOMAIN lists /\ ListsSpare(c)
      /\ \A l \in DOMAIN lists : ~Has(lists'[l], c)
      /\ \A d \in DOMAIN cards : d # c => d \in DOMAIN cards'
  <2>1. CASE c \in DOMAIN cards
    <3>1. /\ lists' = [l \in DOMAIN lists |-> Without(lists[l], c)]
          /\ cards' = [d \in DOMAIN cards \ {c} |-> cards[d]]
      BY <1>1, <2>1 DEF CardDeleted
    <3>. QED BY <1>2, <3>1, WithoutLists DEF ListsSpare
  <2>2. CASE c \notin DOMAIN cards
    <3>1. lists' = lists /\ cards' = cards
      BY <1>1, <2>2 DEF CardDeleted
    <3>2. ~MoveAwaited(c)
      BY <1>0, <1>1 DEF MoveAwaited, Awaited, About
    <3>3. ~Listed(c)
      BY <1>0, <1>1, <2>2, <3>2 DEF CardOK
    <3>. QED BY <3>1, <3>3, ListsSame DEF Listed
  <2>. QED BY <2>1, <2>2
<1>5. ListsOK'
  BY <1>0, <1>2, <1>3 DEF ListsOK
<1>6. CreatesOK'
  <2> SUFFICES ASSUME NEW j \in requests', j.op = "create", j.is = "done", NEW l \in DOMAIN lists
               PROVE  ~Has(lists'[l], j.id)
    BY <1>3 DEF CreatesOK
  <2>1. PICK r \in requests : j.op = r.op /\ j.id = r.id /\ j.is = r.is
    BY <1>0, StaleEnds
  <2>2. ~Has(lists[l], j.id) /\ j.id # c
    BY <1>0, <1>1, <2>1, StoreAssumption DEF CreatesOK, TypesInv, RequestsTyped, RequestTyped
  <2>. QED BY <1>3, <2>2, Spared
<1>7. ASSUME NEW d \in Card, d # c PROVE CardOK(d)'
  <2>1. /\ OwnKept(d) /\ moveVersions'[d] = moveVersions[d] /\ HomesKept(d)
        /\ \A j \in requests' : Own(j, d) /\ j.is = "done" => j \in requests
    BY <1>0, <1>1, <1>7, StaleEnds, RowsAlone
  <2>2. (Awaited(d) => Awaited(d)') /\ (MoveAwaited(d) => MoveAwaited(d)')
        /\ (d \in strayed => d \in strayed')
    BY <1>0, <1>1, <1>7 DEF About
  <2>. QED BY <1>3, <1>7, <2>1, <2>2, Bystander
<1>8. CardOK(c)'
  <2>1. Single(lists', c)
    BY <1>3 DEF Single, Once, Has
  <2>2. ~Listed(c)'
    BY <1>3 DEF Listed, Has
  <2>3. row'[c] = Gone
    BY <1>1 DEF rows
  <2>4. Placed(c)'
    BY <1>0, <1>1, <1>3, <2>3, StaleEnds, FramePlaced
  <2>. QED BY <2>1, <2>2, <2>4 DEF CardOK, Single, Once, Has
<1>. QED BY <1>5, <1>6, <1>7, <1>8

\* A list.deleted frame: cards that are shown in the list, and that the
\* server has elsewhere, go astray.
LEMMA DropKeepsBoard ==
  ASSUME TypesInv, NEW f \in CardFrames, ListDeleted(f),
         UNCHANGED rows, ListsOK, CreatesOK, \A c \in Card : CardOK(c),
         \A d : Awaited(d) <=> Awaited(d)' \/ About(f, d),
         \A d : MoveAwaited(d) <=> MoveAwaited(d)' \/ (f.card = d /\ f.type = "card.moved"),
         \A l : DropAwaited(l) <=> DropAwaited(l)' \/ (f.type = "list.deleted" /\ f.list = l),
         f.list \notin open
  PROVE  ListsOK' /\ CreatesOK' /\ \A d \in Card : CardOK(d)'
<1>0. f.type = "list.deleted" /\ moveVersions' = moveVersions /\ requests' = requests /\ open' = open
  BY DEF ListDeleted, rows
<1>1. \A d : (Awaited(d) <=> Awaited(d)') /\ (MoveAwaited(d) <=> MoveAwaited(d)')
  BY <1>0 DEF About
<1>2. /\ DOMAIN lists' = DOMAIN lists \ {f.list} /\ \A l \in DOMAIN lists' : lists'[l] = lists[l]
      /\ strayed \subseteq strayed'
      /\ \A c \in DOMAIN cards : c \in DOMAIN cards' \/ (f.list \in DOMAIN lists /\ Has(lists[f.list], c))
      /\ \A c \in Card : row[c] # Gone /\ f.list \in DOMAIN lists /\ Has(lists[f.list], c) => c \in strayed'
  <2>1. CASE f.list \in DOMAIN lists
    BY <2>1 DEF ListDeleted, ToSet, Has
  <2>2. CASE f.list \notin DOMAIN lists
    BY <2>2 DEF ListDeleted
  <2>. QED BY <2>1, <2>2
<1>3. ListsOK'
  BY <1>0, <1>2 DEF ListsOK
<1>4. CreatesOK'
  BY <1>0, <1>2 DEF CreatesOK
<1>5. ASSUME NEW c \in Card PROVE CardOK(c)'
  <2>1. CardOK(c)
    OBVIOUS
  <2>2. Single(lists, c) => Single(lists', c)
    BY <1>2 DEF Single
  <2>3. Listed(c)' => Listed(c)
    BY <1>2 DEF Listed
  <2>4. ASSUME ~MoveAwaited(c)' PROVE Single(lists', c) /\ (Listed(c)' => c \in DOMAIN cards')
    <3>1. Single(lists, c) /\ (Listed(c) => c \in DOMAIN cards)
      BY <1>1, <2>1, <2>4 DEF CardOK
    <3>2. ASSUME Listed(c)' PROVE c \in DOMAIN cards'
      <4>1. PICK l \in DOMAIN lists' : Has(lists'[l], c)
        BY <3>2 DEF Listed
      <4>2. l \in DOMAIN lists /\ l # f.list /\ Has(lists[l], c)
        BY <1>2, <4>1
      <4>3. ~(f.list \in DOMAIN lists /\ Has(lists[f.list], c))
        BY <3>1, <4>2 DEF Single
      <4>. QED BY <1>2, <2>3, <3>1, <3>2, <4>3
    <3>. QED BY <2>2, <3>1, <3>2
  <2>5. ASSUME c \notin strayed', ~Awaited(c)' PROVE Placed(c)'
    <3>1. Placed(c)
      BY <1>1, <1>2, <2>1, <2>5 DEF CardOK
    <3>2. OwnKept(c) /\ HomesKept(c)
      BY <1>0, RowsAlone DEF OwnKept
    <3>3. row'[c] # Gone /\ Listed(c) => Listed(c)'
      <4> SUFFICES ASSUME row'[c] # Gone, NEW l \in DOMAIN lists, Has(lists[l], c) PROVE Listed(c)'
        BY DEF Listed
      <4>1. row[c] # Gone
        BY DEF rows
      <4>2. l # f.list
        BY <1>2, <2>5, <4>1
      <4>. QED BY <1>2, <4>2 DEF Listed
    <3>. QED BY <1>0, <1>2, <3>1, <3>2, <3>3, PlacedKept
  <2>. QED BY <2>4, <2>5 DEF CardOK, Single, Once, Has
<1>. QED BY <1>3, <1>4, <1>5

\* The next frame is applied.
LEMMA FrameKeepsBoard ==
  ASSUME TypesInv, TrailInv, BoardOK, ApplyFrame
  PROVE  BoardOK'
<1> SUFFICES ASSUME Valid' PROVE ListsOK' /\ CreatesOK' /\ \A d \in Card : CardOK(d)'
  BY DEF BoardOK
<1>0. /\ FramesTyped /\ lastSeq < Len(frames) /\ lastSeq' = lastSeq + 1
      /\ UNCHANGED <<rows, channel, screen, fetch>>
  BY DEF TypesInv, ApplyFrame
<1>1. Trail' = Trail
  BY <1>0 DEF Trail, channel
<1>2. PICK n : n = lastSeq + 1
  OBVIOUS
<1>3. PICK f : f = Trail[n]
  OBVIOUS
<1>4. /\ f = frames[lastSeq + 1] /\ f \in CardFrames /\ n \in 1 .. Len(Trail)
      /\ Unsure <=> Unsure' \/ Content(f)
      /\ \A c : Awaited(c) <=> Awaited(c)' \/ About(f, c)
      /\ \A c : MoveAwaited(c) <=> MoveAwaited(c)' \/ (f.card = c /\ f.type = "card.moved")
      /\ \A l : DropAwaited(l) <=> DropAwaited(l)' \/ (f.type = "list.deleted" /\ f.list = l)
  BY <1>0, <1>1, <1>2, <1>3, TrailShrinks
<1>5. CardMoved(f) \/ CardDeleted(f) \/ ListDeleted(f) \/ ContentChanged(f)
  BY <1>4 DEF ApplyFrame
<1>6. ~needsResync' /\ ~Unsure'
  BY DEF Valid
<1>7. WordOf(n)
  BY <1>4 DEF TrailInv
<1>8. LastWord(n) <=> ~Awaited(f.card)'
  <2>1. Pending' = n + 1 .. Len(Trail)
    BY <1>0, <1>1, <1>2 DEF Pending
  <2>. QED BY <1>1, <1>3, <2>1 DEF LastWord, Awaited, About
<1>9. ASSUME ~Content(f), ~needsResync PROVE ListsOK /\ CreatesOK /\ \A d \in Card : CardOK(d)
  BY <1>0, <1>4, <1>6, <1>9 DEF BoardOK, Valid
<1>10. CASE CardMoved(f)
  <2>1. f.card \in DOMAIN cards /\ f.list \in DOMAIN lists /\ f.type = "card.moved" /\ ~needsResync
    BY <1>6, <1>10 DEF CardMoved
  <2>2. ListsOK /\ CreatesOK /\ \A d \in Card : CardOK(d)
    BY <1>9, <2>1 DEF Content
  <2>3. ~Awaited(f.card)' => Home(f.card, f.list)
    BY <1>3, <1>7, <1>8, <2>1 DEF WordOf
  <2>. QED BY <1>0, <1>4, <1>10, <2>1, <2>2, <2>3, MovedKeepsBoard
<1>11. CASE CardDeleted(f)
  <2>1. f.type = "card.deleted" /\ ~needsResync
    BY <1>6, <1>11 DEF CardDeleted
  <2>2. ListsOK /\ CreatesOK /\ \A d \in Card : CardOK(d)
    BY <1>9, <2>1 DEF Content
  <2>3. row[f.card] = Gone /\ ~Awaited(f.card)'
    BY <1>3, <1>7, <1>8, <2>1 DEF WordOf
  <2>. QED BY <1>0, <1>4, <1>11, <2>2, <2>3, DeletedKeepsBoard
<1>12. CASE ListDeleted(f)
  <2>1. f.type = "list.deleted" /\ ~needsResync
    BY <1>6, <1>12 DEF ListDeleted
  <2>2. ListsOK /\ CreatesOK /\ \A d \in Card : CardOK(d)
    BY <1>9, <2>1 DEF Content
  <2>3. f.list \notin open
    BY <1>3, <1>7, <2>1 DEF WordOf
  <2>. QED BY <1>0, <1>4, <1>12, <2>2, <2>3, DropKeepsBoard
<1>13. CASE ContentChanged(f)
  BY <1>6, <1>13 DEF ContentChanged
<1>. QED BY <1>5, <1>10, <1>11, <1>12, <1>13

---------------------------------------------------------------------------
(* Reloading *)

\* A refetch has found a card in a list; in one place of one list at most.
Read(l, c) == fetch[l] # Unread /\ \E i \in DOMAIN fetch[l] : fetch[l][i].card = c
ReadOnce(c) ==
  /\ \A l \in DOMAIN fetch : fetch[l] # Unread =>
       \A i, j \in DOMAIN fetch[l] : fetch[l][i].card = c /\ fetch[l][j].card = c => i = j
  /\ \A l, m \in DOMAIN fetch : Read(l, c) /\ Read(m, c) => l = m

\* What was read of a card that no frame on its way is about is still so.
ReadOK(c) ==
  /\ ~MoveAwaited(c) => ReadOnce(c)
  /\ ~Awaited(c) => \A l \in DOMAIN fetch :
       /\ Read(l, c) => Home(c, l)
       /\ fetch[l] # Unread /\ row[c] # Gone /\ row[c].list = l => Read(l, c)

FetchOK ==
  screen = "loading" /\ ~Unsure =>
    /\ open \subseteq DOMAIN fetch /\ \A l \in DOMAIN fetch : l \in open \/ DropAwaited(l)
    /\ \A c \in Card : ReadOK(c)

\* What was read is left alone.
LEMMA FetchSame ==
  ASSUME fetch' = fetch
  PROVE  /\ \A l, c : Read(l, c)' <=> Read(l, c)
         /\ \A c : ReadOnce(c)' <=> ReadOnce(c)
BY DEF Read, ReadOnce, Unread

\* The server commits during a refetch.
LEMMA CommitKeepsFetch ==
  ASSUME TypesInv, FetchOK, NEW f, Commits(f)
  PROVE  FetchOK'
<1> SUFFICES ASSUME screen' = "loading", ~Unsure'
             PROVE  /\ open' \subseteq DOMAIN fetch' /\ \A l \in DOMAIN fetch' : l \in open' \/ DropAwaited(l)'
                    /\ \A c \in Card : ReadOK(c)'
  BY DEF FetchOK
<1>0. /\ RowsTyped /\ FramesTyped /\ Does(f) /\ f \in CardFrames
      /\ Trail' = Append(Trail, f) /\ UNCHANGED <<lastSeq, screen, fetch>>
  BY DEF TypesInv, Commits, Does
<1>1. /\ Unsure' <=> Unsure \/ Content(f)
      /\ \A c : Awaited(c)' <=> Awaited(c) \/ About(f, c)
      /\ \A c : MoveAwaited(c)' <=> MoveAwaited(c) \/ (f.card = c /\ f.type = "card.moved")
      /\ \A l : DropAwaited(l)' <=> DropAwaited(l) \/ (f.type = "list.deleted" /\ f.list = l)
  BY <1>0, TrailGrows
<1>2. fetch' = fetch /\ screen' = screen /\ ~Content(f)
  BY <1>0, <1>1
<1>3. /\ open \subseteq DOMAIN fetch /\ \A l \in DOMAIN fetch : l \in open \/ DropAwaited(l)
      /\ \A c \in Card : ReadOK(c)
  BY <1>1, <1>2 DEF FetchOK
<1>4. open' \subseteq open /\ \A l \in open : l \in open' \/ (f.type = "list.deleted" /\ f.list = l)
  BY <1>0 DEF Does
<1>5. /\ \A l, c : Read(l, c)' <=> Read(l, c)
      /\ \A c : ReadOnce(c)' <=> ReadOnce(c)
  BY <1>2, FetchSame
<1>6. ASSUME NEW c \in Card PROVE ReadOK(c)'
  <2>1. ReadOK(c) /\ Gone' = Gone /\ Unread' = Unread
    BY <1>3 DEF Gone, Unread
  <2>2. ~MoveAwaited(c)' => ReadOnce(c)'
    BY <1>1, <1>5, <2>1 DEF ReadOK
  <2>3. ASSUME ~Awaited(c)', NEW l \in DOMAIN fetch
        PROVE  /\ Read(l, c)' => Home(c, l)'
               /\ fetch[l] # Unread /\ row'[c] # Gone /\ row'[c].list = l => Read(l, c)'
    <3>1. ~Awaited(c) /\ ~About(f, c)
      BY <1>1, <2>3
    <3>2. /\ \A m : Home(c, m) => Home(c, m)'
          /\ row'[c] # Gone => row[c] # Gone /\ row'[c].list = row[c].list
      BY <1>0, <1>2, <3>1, HomeKept DEF Content
    <3>3. /\ Read(l, c) => Home(c, l)
          /\ fetch[l] # Unread /\ row[c] # Gone /\ row[c].list = l => Read(l, c)
      BY <2>1, <3>1 DEF ReadOK
    <3>. QED BY <1>5, <3>2, <3>3
  <2>. QED BY <1>2, <2>1, <2>2, <2>3 DEF ReadOK
<1>. QED BY <1>1, <1>2, <1>3, <1>4, <1>6

\* Nothing that a refetch depends on changes.
LEMMA FetchKept ==
  ASSUME FetchOK, UNCHANGED <<rows, screen, fetch>>, Trail' = Trail, lastSeq' = lastSeq
  PROVE  FetchOK'
<1>1. /\ Unsure' <=> Unsure
      /\ \A d : (Awaited(d)' <=> Awaited(d)) /\ (MoveAwaited(d)' <=> MoveAwaited(d))
      /\ \A m : DropAwaited(m)' <=> DropAwaited(m)
  BY TrailSame
<1>2. row' = row /\ open' = open /\ fetch' = fetch /\ screen' = screen /\ Gone' = Gone /\ Unread' = Unread
  BY DEF rows, Gone, Unread
<1>3. /\ \A l, c : Read(l, c)' <=> Read(l, c)
      /\ \A c : ReadOnce(c)' <=> ReadOnce(c)
  BY <1>2, FetchSame
<1>4. \A c, l : Home(c, l)' <=> Home(c, l)
  BY <1>2 DEF Home
<1>5. \A c : ReadOK(c)' <=> ReadOK(c)
  BY <1>1, <1>2, <1>3, <1>4 DEF ReadOK
<1>. QED BY <1>1, <1>2, <1>5 DEF FetchOK

\* A refetch begins with nothing read.
LEMMA RefetchStarts ==
  ASSUME RefetchBoard
  PROVE  FetchOK'
<1>1. fetch' = [l \in open |-> Unread] /\ open' = open
  BY DEF RefetchBoard, rows
<1>2. DOMAIN fetch' = open /\ \A l \in open : fetch'[l] = Unread'
  BY <1>1 DEF Unread
<1>3. \A c : \A l \in DOMAIN fetch' : ~Read(l, c)'
  BY <1>2 DEF Read
<1>4. \A c : ReadOnce(c)'
  BY <1>2, <1>3 DEF ReadOnce
<1>5. \A c : ReadOK(c)'
  BY <1>2, <1>3, <1>4 DEF ReadOK
<1>. QED BY <1>1, <1>2, <1>5 DEF FetchOK

\* One more list is read: a card found in two of them moved in between, and
\* the frame of that move is on its way.
LEMMA ReadKeepsFetch ==
  ASSUME TypesInv, TrailInv, FetchOK, NEW l \in DOMAIN fetch, ReadList(l)
  PROVE  FetchOK'
<1> SUFFICES ASSUME ~Unsure'
             PROVE  /\ open' \subseteq DOMAIN fetch' /\ \A m \in DOMAIN fetch' : m \in open' \/ DropAwaited(m)'
                    /\ \A c \in Card : ReadOK(c)'
  BY DEF FetchOK
<1>0. /\ RowsTyped /\ FramesTyped /\ UNCHANGED <<rows, channel, lastSeq>>
      /\ screen = "loading" /\ fetch[l] = Unread /\ l \in open
  BY DEF TypesInv, ReadList
<1>1. Trail' = Trail /\ lastSeq' = lastSeq
  BY <1>0 DEF Trail, channel
<1>2. /\ Unsure' <=> Unsure
      /\ \A d : (Awaited(d)' <=> Awaited(d)) /\ (MoveAwaited(d)' <=> MoveAwaited(d))
      /\ \A m : DropAwaited(m)' <=> DropAwaited(m)
  BY <1>1, TrailSame
<1>3. row' = row /\ open' = open /\ Gone' = Gone /\ Unread' = Unread
  BY <1>0 DEF rows, Gone, Unread
<1>4. /\ open \subseteq DOMAIN fetch /\ \A m \in DOMAIN fetch : m \in open \/ DropAwaited(m)
      /\ \A c \in Card : ReadOK(c)
  BY <1>0, <1>2 DEF FetchOK
<1>5. PICK s : /\ fetch' = [fetch EXCEPT ![l] = s] /\ s \in Seq(Entries)
               /\ \A c : (\E i \in DOMAIN s : s[i].card = c) <=> c \in In(l)
               /\ \A i, j \in DOMAIN s : s[i].card = s[j].card => i = j
  BY <1>0, ReadIs
<1>6. /\ DOMAIN fetch' = DOMAIN fetch /\ fetch'[l] = s
      /\ \A m \in DOMAIN fetch : m # l => fetch'[m] = fetch[m]
  BY <1>5
<1>7. ASSUME NEW c
      PROVE  /\ Read(l, c)' => c \in In(l)
             /\ fetch'[l] # Unread /\ c \in In(l) => Read(l, c)'
             /\ \A m \in DOMAIN fetch : m # l => (Read(m, c)' <=> Read(m, c))
  BY <1>3, <1>5, <1>6 DEF Read
<1>8. ASSUME NEW c \in Card, c \in In(l)
      PROVE  row[c] # Gone /\ row[c].list = l
  BY <1>0, <1>8, StoreAssumption DEF In, Gone, RowsTyped
<1>9. ASSUME NEW c \in Card PROVE ReadOK(c)'
  <2>1. ReadOK(c)
    BY <1>4
  <2>2. ASSUME ~MoveAwaited(c)' PROVE ReadOnce(c)'
    <3>1. ReadOnce(c)
      BY <1>2, <2>1, <2>2 DEF ReadOK
    <3>2. ASSUME NEW m \in DOMAIN fetch, m # l, Read(m, c), c \in In(l) PROVE FALSE
      <4>1. row[c] # Gone /\ row[c].list = l
        BY <1>8, <3>2
      <4>2. ~Awaited(c)
        <5>1. ASSUME NEW i \in Pending, About(Trail[i], c) PROVE FALSE
          <6>1. i \in 1 .. Len(Trail)
            BY <1>0, <5>1, TrailIs DEF Pending
          <6>2. Trail[i].card = c /\ Trail[i].type # "card.moved"
            BY <1>2, <2>2, <5>1 DEF About, MoveAwaited
          <6>3. Trail[i].type = "card.deleted"
            BY <5>1, <6>2 DEF About
          <6>. QED BY <4>1, <6>1, <6>2, <6>3 DEF TrailInv, WordOf
        <5>. QED BY <5>1 DEF Awaited
      <4>3. Home(c, m)
        BY <2>1, <3>2, <4>2 DEF ReadOK
      <4>. QED BY <3>2, <4>1, <4>3 DEF Home
    <3>3. \A m, n \in DOMAIN fetch : Read(m, c)' /\ Read(n, c)' => m = n
      BY <1>7, <3>1, <3>2 DEF ReadOnce
    <3>4. \A m \in DOMAIN fetch : fetch'[m] # Unread =>
            \A i, j \in DOMAIN fetch'[m] : fetch'[m][i].card = c /\ fetch'[m][j].card = c => i = j
      <4> SUFFICES ASSUME NEW m \in DOMAIN fetch, fetch'[m] # Unread,
                          NEW i \in DOMAIN fetch'[m], NEW j \in DOMAIN fetch'[m],
                          fetch'[m][i].card = c, fetch'[m][j].card = c
                   PROVE  i = j
        OBVIOUS
      <4>1. CASE m = l
        BY <1>5, <1>6, <4>1
      <4>2. CASE m # l
        BY <1>6, <3>1, <4>2 DEF ReadOnce
      <4>. QED BY <4>1, <4>2
    <3>. QED BY <1>3, <1>6, <3>3, <3>4 DEF ReadOnce
  <2>3. ASSUME ~Awaited(c)', NEW m \in DOMAIN fetch
        PROVE  /\ Read(m, c)' => Home(c, m)
               /\ fetch'[m] # Unread /\ row[c] # Gone /\ row[c].list = m => Read(m, c)'
    <3>1. /\ Read(m, c) => Home(c, m)
          /\ fetch[m] # Unread /\ row[c] # Gone /\ row[c].list = m => Read(m, c)
      BY <1>2, <2>1, <2>3 DEF ReadOK
    <3>2. CASE m = l
      <4>1. Read(m, c)' => Home(c, m)
        BY <1>7, <1>8, <3>2 DEF Home
      <4>2. row[c].list = m => c \in In(l)
        BY <3>2 DEF In
      <4>. QED BY <1>7, <3>2, <4>1, <4>2
    <3>3. CASE m # l
      BY <1>6, <1>7, <3>1, <3>3
    <3>. QED BY <3>2, <3>3
  <2>4. \A m : Home(c, m)' <=> Home(c, m)
    BY <1>3 DEF Home
  <2>. QED BY <1>3, <1>6, <2>2, <2>3, <2>4 DEF ReadOK
<1>. QED BY <1>2, <1>3, <1>4, <1>6, <1>9

\* The snapshot becomes the board.
LEMMA HydrateGivesBoard ==
  ASSUME TypesInv, FetchOK, HydrateBoard
  PROVE  BoardOK'
<1> SUFFICES ASSUME Valid' PROVE ListsOK' /\ CreatesOK' /\ \A c \in Card : CardOK(c)'
  BY DEF BoardOK
<1>0. /\ screen = "loading" /\ \A l \in DOMAIN fetch : fetch[l] # Unread
      /\ lists' = SnapshotLists /\ cards' = SnapshotCards /\ strayed' = {}
      /\ requests' = {NotedOf(k, "reload") : k \in requests}
      /\ UNCHANGED <<rows, channel, lastSeq>>
  BY DEF HydrateBoard, NotedOf
<1>1. Trail' = Trail /\ lastSeq' = lastSeq /\ row' = row /\ open' = open
  BY <1>0 DEF Trail, channel, rows
<1>2. /\ Unsure' <=> Unsure
      /\ \A d : (Awaited(d)' <=> Awaited(d)) /\ (MoveAwaited(d)' <=> MoveAwaited(d))
      /\ \A m : DropAwaited(m)' <=> DropAwaited(m)
  BY <1>1, TrailSame
<1>3. /\ open \subseteq DOMAIN fetch /\ \A m \in DOMAIN fetch : m \in open \/ DropAwaited(m)
      /\ \A c \in Card : ReadOK(c)
  BY <1>0, <1>2 DEF FetchOK, Valid
<1>4. /\ DOMAIN lists' = DOMAIN fetch
      /\ \A l \in DOMAIN fetch : lists'[l] \in Seq(Card)
      /\ \A c : \A l \in DOMAIN fetch : Has(lists'[l], c) => c \in DOMAIN cards'
  BY <1>0, SnapshotIs DEF TypesInv
<1>5. ASSUME NEW l \in DOMAIN fetch
      PROVE  DOMAIN lists'[l] = DOMAIN fetch[l] /\ \A i \in DOMAIN fetch[l] : lists'[l][i] = fetch[l][i].card
  BY <1>0 DEF SnapshotLists
<1>6. ASSUME NEW l \in DOMAIN fetch, NEW c PROVE Has(lists'[l], c) <=> Read(l, c)
  BY <1>0, <1>5 DEF Has, Read
<1>7. ListsOK'
  BY <1>1, <1>2, <1>3, <1>4 DEF ListsOK
<1>8. ASSUME NEW j \in requests'
      PROVE  "reload" \in j.since /\ (j.op = "create" => j.id \in Temp)
  <2>1. PICK k \in requests : j = NotedOf(k, "reload")
    BY <1>0
  <2>2. k \in CallType /\ RequestTyped(k)
    BY DEF TypesInv, RequestsTyped, RequestTyped
  <2>3. j.op = k.op /\ j.id = k.id /\ j.since = k.since \cup {"reload"}
    BY <2>1, <2>2, NotedIs
  <2>. QED BY <2>2, <2>3 DEF RequestTyped
<1>9. CreatesOK'
  <2> SUFFICES ASSUME NEW j \in requests', j.op = "create", NEW l \in DOMAIN fetch, Has(lists'[l], j.id)
               PROVE  FALSE
    BY <1>4 DEF CreatesOK
  <2>1. j.id \in Card
    BY <1>4, ElementOfSeq, LenProperties DEF Has
  <2>. QED BY <1>8, <2>1, StoreAssumption
<1>10. ASSUME NEW c \in Card PROVE CardOK(c)'
  <2>1. ReadOK(c)
    BY <1>3
  <2>2. ASSUME ~MoveAwaited(c)' PROVE Single(lists', c)
    <3>1. ReadOnce(c)
      BY <1>2, <2>1, <2>2 DEF ReadOK
    <3>2. \A l \in DOMAIN fetch : Once(lists'[l], c)
      BY <1>0, <1>5, <3>1 DEF ReadOnce, Once
    <3>. QED BY <1>4, <1>6, <3>1, <3>2 DEF ReadOnce, Single
  <2>3. Listed(c)' => c \in DOMAIN cards'
    BY <1>4 DEF Listed
  <2>4. ASSUME ~Awaited(c)' PROVE Placed(c)'
    <3>1. \A l \in DOMAIN fetch :
            /\ Read(l, c) => Home(c, l)
            /\ row[c] # Gone /\ row[c].list = l => Read(l, c)
      BY <1>0, <1>2, <2>1, <2>4 DEF ReadOK
    <3>2. \A l \in DOMAIN lists' : Has(lists'[l], c) => Home(c, l)'
      <4> SUFFICES ASSUME NEW l \in DOMAIN fetch, Has(lists'[l], c) PROVE Home(c, l)'
        BY <1>4
      <4>1. Home(c, l)
        BY <1>6, <3>1
      <4>. QED BY <1>1, <4>1 DEF Home, Gone
    <3>3. row'[c] # Gone => Listed(c)'
      <4>1. row[c] # Gone => row[c].list \in DOMAIN fetch
        BY <1>3 DEF TypesInv, RowsTyped
      <4>2. row[c] # Gone => Has(lists'[row[c].list], c)
        BY <1>6, <3>1, <4>1
      <4>. QED BY <1>1, <1>4, <4>1, <4>2 DEF Listed
    <3>4. \A k \in requests' : ~Own(k, c)
      BY <1>8 DEF Own
    <3>. QED BY <3>2, <3>3, <3>4, FramePlaced
  <2>. QED BY <2>2, <2>3, <2>4 DEF CardOK, Single, Once, Has
<1>. QED BY <1>7, <1>9, <1>10

---------------------------------------------------------------------------
(* Versions and temporary cards *)

\* A card that is being created still is.
CreatesKept == \A k \in requests : k.op = "create" => \E j \in requests' : j.op = "create" /\ j.id = k.id

\* No temporary card is added, and no create settled.
LEMMA TempsKept ==
  ASSUME TempsOK, CreatesKept, \A t \in DOMAIN cards' : t \in Temp => t \in DOMAIN cards
  PROVE  TempsOK'
BY DEF TempsOK, CreatesKept

\* A request is answered or fails.
LEMMA AnswerKeepsCalls ==
  ASSUME RequestsTyped, Unique, NEW k \in requests, NEW is \in {"sent", "done", "failed"},
         NEW c \in Card \cup {NoCard}, NEW key \in Nat,
         requests' = (requests \ {k}) \cup {Answered(k, is, c, key)}
  PROVE  Unique' /\ CreatesKept
<1> DEFINE y == Answered(k, is, c, key)
<1>1. k \in CallType
  BY DEF RequestsTyped, RequestTyped
<1>2. y.op = k.op /\ y.id = k.id /\ y.version = k.version /\ y.since = k.since
  BY <1>1, AnsweredIs
<1>3. requests' = (requests \ {k}) \cup {y}
  OBVIOUS
<1> HIDE DEF y
<1>4. Unique'
  <2> SUFFICES ASSUME NEW i \in requests', NEW j \in requests', i.op = "move", j.op = "move",
                      i.id = j.id, i.version = j.version, "reload" \notin i.since, "reload" \notin j.since
               PROVE  i = j
    BY DEF Unique
  <2>1. CASE i = y /\ j # y
    BY <1>2, <1>3, <2>1 DEF Unique
  <2>2. CASE i # y /\ j = y
    BY <1>2, <1>3, <2>2 DEF Unique
  <2>3. CASE i # y /\ j # y
    BY <1>3, <2>3 DEF Unique
  <2>. QED BY <2>1, <2>2, <2>3
<1>5. CreatesKept
  BY <1>2, <1>3 DEF CreatesKept
<1>. QED BY <1>4, <1>5

\* A drag or a frame tells the moves of a card.
LEMMA MarkKeepsCalls ==
  ASSUME RequestsTyped, Unique, NEW c, NEW what \in {"mine", "frame"}
  PROVE  /\ \A i, j \in Mark(requests, c, what) :
              i.op = "move" /\ j.op = "move" /\ i.id = j.id /\ i.version = j.version
              /\ "reload" \notin i.since /\ "reload" \notin j.since => i = j
         /\ \A k \in requests : k.op = "create" =>
              \E j \in Mark(requests, c, what) : j.op = "create" /\ j.id = k.id
<1>0. ASSUME NEW j \in Mark(requests, c, what)
      PROVE  \E k \in requests :
               /\ j.op = k.op /\ j.id = k.id /\ j.version = k.version
               /\ j = IF k.id = c THEN NotedOf(k, what) ELSE k
               /\ j.since = IF k.id = c THEN k.since \cup {what} ELSE k.since
  <2>1. PICK k \in requests : j = IF k.id = c THEN NotedOf(k, what) ELSE k
    BY <1>0, MarkIs
  <2>2. k \in CallType /\ what \in {"mine", "frame", "reload"}
    BY DEF RequestsTyped, RequestTyped
  <2>3. CASE k.id = c
    <3>1. j = NotedOf(k, what)
      BY <2>1, <2>3
    <3>2. j.op = k.op /\ j.id = k.id /\ j.version = k.version /\ j.since = k.since \cup {what}
      BY <2>2, <3>1, NotedIs
    <3>. QED BY <2>3, <3>1, <3>2
  <2>4. CASE k.id # c
    BY <2>1, <2>4
  <2>. QED BY <2>3, <2>4
<1>1. ASSUME NEW i \in Mark(requests, c, what), NEW j \in Mark(requests, c, what), i.op = "move", j.op = "move",
             i.id = j.id, i.version = j.version, "reload" \notin i.since, "reload" \notin j.since
      PROVE  i = j
  <2>1. PICK k \in requests :
          /\ i.op = k.op /\ i.id = k.id /\ i.version = k.version
          /\ i = IF k.id = c THEN NotedOf(k, what) ELSE k
          /\ i.since = IF k.id = c THEN k.since \cup {what} ELSE k.since
    BY <1>0
  <2>2. PICK m \in requests :
          /\ j.op = m.op /\ j.id = m.id /\ j.version = m.version
          /\ j = IF m.id = c THEN NotedOf(m, what) ELSE m
          /\ j.since = IF m.id = c THEN m.since \cup {what} ELSE m.since
    BY <1>0
  <2>3. "reload" \notin k.since /\ "reload" \notin m.since
    BY <1>1, <2>1, <2>2
  <2>4. k = m
    BY <1>1, <2>1, <2>2, <2>3 DEF Unique
  <2>. QED BY <2>1, <2>2, <2>4
<1>2. ASSUME NEW k \in requests, k.op = "create"
      PROVE  \E j \in Mark(requests, c, what) : j.op = "create" /\ j.id = k.id
  <2>1. PICK j \in Mark(requests, c, what) :
           /\ j.op = k.op /\ j.id = k.id /\ j.version = k.version /\ j.is = k.is
           /\ j.from = k.from /\ j.to = k.to
           /\ j = IF k.id = c THEN NotedOf(k, what) ELSE k
           /\ j.since = IF k.id = c THEN k.since \cup {what} ELSE k.since
    BY MarkedAll
  <2>. QED BY <1>2, <2>1
<1>. QED BY <1>1, <1>2

\* The user drags a card.
LEMMA DragKeepsCalls ==
  ASSUME TypesInv, VersionsInv, Unique, TempsOK, NEW c \in Id, NEW from \in DOMAIN lists, NEW to \in DOMAIN lists,
         NEW i \in DropPlaces(from, to), MoveCard(c, from, to, i)
  PROVE  Unique' /\ TempsOK'
<1>0. RequestsTyped /\ CardsTyped(cards) /\ moveVersions \in [Id -> Nat] /\ SetKey(c, 0)
  BY ViewParts DEF TypesInv, MoveCard
<1>1. PICK k : /\ requests' = Mark(requests, c, "mine") \cup {k}
               /\ RequestTyped(k)
               /\ k.op = "move" /\ k.id = c /\ k.from = from /\ k.to = to
               /\ k.version = moveVersions[c] + 1 /\ k.since = {} /\ k.is = "sent"
  BY DragSends
<1>2. ASSUME NEW j \in Mark(requests, c, "mine"), j.op = "move", j.id = c, "reload" \notin j.since
      PROVE  j.version # moveVersions[c] + 1
  <2>1. PICK r \in requests :
          /\ j.op = r.op /\ j.id = r.id /\ j.version = r.version /\ j.is = r.is
          /\ j.from = r.from /\ j.to = r.to
          /\ j = IF r.id = c THEN NotedOf(r, "mine") ELSE r
          /\ j.since = IF r.id = c THEN r.since \cup {"mine"} ELSE r.since
    BY <1>0, MarkedIs
  <2>2. MoveOK(r, moveVersions) /\ "reload" \notin r.since /\ r.op = "move" /\ r.id = c
    BY <1>2, <2>1 DEF VersionsInv
  <2>3. r.version \in Nat /\ r.version <= moveVersions[c] /\ moveVersions[c] \in Nat
    BY <1>0, <2>2 DEF MoveOK
  <2>. QED BY <2>1, <2>3
<1>3. Unique'
  <2> SUFFICES ASSUME NEW m \in requests', NEW j \in requests', m.op = "move", j.op = "move",
                      m.id = j.id, m.version = j.version, "reload" \notin m.since, "reload" \notin j.since
               PROVE  m = j
    BY DEF Unique
  <2>1. CASE m = k /\ j # k
    BY <1>1, <1>2, <2>1
  <2>2. CASE m # k /\ j = k
    BY <1>1, <1>2, <2>2
  <2>3. CASE m # k /\ j # k
    <3>1. m \in Mark(requests, c, "mine") /\ j \in Mark(requests, c, "mine")
      BY <1>1, <2>3
    <3>. QED BY <1>0, <3>1, MarkKeepsCalls
  <2>. QED BY <2>1, <2>2, <2>3
<1>4. CreatesKept
  <2>1. \A r \in requests : r.op = "create" =>
              \E j \in Mark(requests, c, "mine") : j.op = "create" /\ j.id = r.id
    BY <1>0, MarkKeepsCalls
  <2>. QED BY <1>1, <2>1 DEF CreatesKept
<1>5. DOMAIN cards' = DOMAIN cards
  BY <1>0, SetKeyTyped
<1>. QED BY <1>3, <1>4, <1>5, TempsKept

\* The user adds a card.
LEMMA AddKeepsCalls ==
  ASSUME TypesInv, Unique, TempsOK, NEW t \in Temp, NEW l \in DOMAIN lists, AddCard(t, l)
  PROVE  Unique' /\ TempsOK'
<1>1. PICK k : /\ requests' = requests \cup {k} /\ RequestTyped(k)
               /\ k.op = "create" /\ k.id = t /\ k.is = "sent"
  BY AddSends
<1>2. Unique'
  BY <1>1 DEF Unique
<1>3. DOMAIN cards' = DOMAIN cards \cup {t}
  BY DEF AddCard, With
<1>4. TempsOK'
  BY <1>1, <1>3 DEF TempsOK
<1>. QED BY <1>2, <1>4

\* A request is settled.
LEMMA SettleKeepsCalls ==
  ASSUME TypesInv, Unique, TempsOK, NEW k \in requests, Settle(k)
  PROVE  Unique' /\ TempsOK'
<1>0. RequestTyped(k) /\ requests' = requests \ {k} /\ CardsTyped(cards) /\ k \in CallType
  BY ViewParts DEF TypesInv, RequestsTyped, RequestTyped, Settle
<1>1. Unique'
  BY <1>0 DEF Unique
<1>2. CASE MoveStored(k) \/ MoveFailed(k)
  <2>1. k.op = "move" /\ k.minted \in Nat /\ k.key \in Nat
    BY <1>0, <1>2 DEF MoveStored, MoveFailed, CallType
  <2>2. UNCHANGED cards \/ \E key \in Nat : SetKey(k.id, key)
    BY <1>2, <2>1 DEF MoveStored, MoveFailed
  <2>3. DOMAIN cards' = DOMAIN cards
    BY <1>0, <2>2, SetKeyTyped
  <2>4. CreatesKept
    BY <1>0, <2>1 DEF CreatesKept
  <2>. QED BY <1>1, <2>3, <2>4, TempsKept
<1>3. CASE CardCreated(k) \/ CreateFailed(k)
  <2>1. k.op = "create" /\ k.id \in Temp
    BY <1>0, <1>3 DEF CardCreated, CreateFailed, RequestTyped
  <2>2. \A t \in DOMAIN cards' : t \in Temp => t \in DOMAIN cards /\ t # k.id
    <3>1. CASE CreateFailed(k)
      BY <3>1 DEF CreateFailed
    <3>2. CASE CardCreated(k)
      <4>1. k.card \in Card
        BY <1>0, <3>2 DEF CardCreated, RequestTyped
      <4>2. DOMAIN cards' = (DOMAIN cards \ {k.id}) \cup {k.card}
        BY <3>2 DEF CardCreated, With
      <4>. QED BY <4>1, <4>2, StoreAssumption
    <3>. QED BY <1>3, <3>1, <3>2
  <2>3. TempsOK'
    BY <1>0, <2>2 DEF TempsOK
  <2>. QED BY <1>1, <2>3
<1>. QED BY <1>2, <1>3 DEF Settle

\* The next frame is applied.
LEMMA FrameKeepsCalls ==
  ASSUME TypesInv, Unique, TempsOK, ApplyFrame
  PROVE  Unique' /\ TempsOK'
<1>0. PICK f : CardMoved(f) \/ CardDeleted(f) \/ ListDeleted(f) \/ ContentChanged(f)
  BY DEF ApplyFrame
<1>1. RequestsTyped
  BY DEF TypesInv
<1>2. DOMAIN cards' \subseteq DOMAIN cards
  BY <1>0 DEF CardMoved, CardDeleted, ListDeleted, ContentChanged
<1>3. CASE Stale(f)
  <2>1. requests' = Mark(requests, f.card, "frame")
    BY <1>3 DEF Stale
  <2>2. /\ \A i, j \in requests' :
             i.op = "move" /\ j.op = "move" /\ i.id = j.id /\ i.version = j.version
             /\ "reload" \notin i.since /\ "reload" \notin j.since => i = j
        /\ \A k \in requests : k.op = "create" => \E j \in requests' : j.op = "create" /\ j.id = k.id
    BY <1>1, <2>1, MarkKeepsCalls
  <2>3. Unique' /\ CreatesKept
    BY <2>2 DEF Unique, CreatesKept
  <2>. QED BY <1>2, <2>3, TempsKept
<1>4. CASE UNCHANGED requests
  <2>1. Unique' /\ CreatesKept
    BY <1>4 DEF Unique, CreatesKept
  <2>. QED BY <1>2, <2>1, TempsKept
<1>. QED BY <1>0, <1>3, <1>4 DEF CardMoved, CardDeleted, ListDeleted, ContentChanged

\* The board is loaded again.
LEMMA HydrateKeepsCalls ==
  ASSUME TypesInv, HydrateBoard
  PROVE  Unique' /\ TempsOK'
<1>1. /\ requests' = {NotedOf(k, "reload") : k \in requests} /\ cards' = SnapshotCards
      /\ \A l \in DOMAIN fetch : fetch[l] # Unread
  BY DEF HydrateBoard, NotedOf
<1>2. ASSUME NEW j \in requests' PROVE "reload" \in j.since
  <2>1. PICK k \in requests : j = NotedOf(k, "reload")
    BY <1>1, <1>2
  <2>2. k \in CallType
    BY DEF TypesInv, RequestsTyped, RequestTyped
  <2>3. j.since = k.since \cup {"reload"}
    BY <2>1, <2>2, NotedIs
  <2>. QED BY <2>3
<1>3. DOMAIN cards' \subseteq Card
  BY <1>1, SnapshotIs DEF TypesInv
<1>. QED BY <1>2, <1>3, StoreAssumption DEF Unique, TempsOK

\* What every step keeps.
AgreeInv == TypesInv /\ VersionsInv /\ TrailInv /\ BoardOK /\ FetchOK /\ Unique /\ TempsOK

\* A step that leaves the requests, but for an answer, and the known cards alone.
LEMMA ReplyKeepsCalls ==
  ASSUME TypesInv, Unique, TempsOK, cards' = cards,
         \/ requests' = requests
         \/ \E k \in requests : \E is \in {"sent", "done", "failed"}, c \in Card \cup {NoCard}, key \in Nat :
              requests' = (requests \ {k}) \cup {Answered(k, is, c, key)}
  PROVE  Unique' /\ TempsOK'
<1>1. Unique' /\ CreatesKept
  <2>1. CASE requests' = requests
    BY <2>1 DEF Unique, CreatesKept
  <2>2. CASE requests' # requests
    BY <2>2, AnswerKeepsCalls DEF TypesInv
  <2>. QED BY <2>1, <2>2
<1>. QED BY <1>1, TempsKept

\* The view and the rows are left alone; a request may fail.
LEMMA FailureKeepsAgree ==
  ASSUME AgreeInv, UNCHANGED <<rows, store, strayed, screen, fetch>>, Trail' = Trail, lastSeq' = lastSeq,
         \/ requests' = requests
         \/ \E k \in requests : requests' = (requests \ {k}) \cup {Answered(k, "failed", NoCard, 0)}
  PROVE  BoardOK' /\ FetchOK' /\ Unique' /\ TempsOK'
<1>0. TypesInv /\ BoardOK /\ FetchOK /\ Unique /\ TempsOK
  BY DEF AgreeInv
<1>1. BoardOK'
  BY <1>0, FailureKeepsBoard
<1>2. FetchOK'
  BY <1>0, FetchKept
<1>3. cards' = cards
  BY DEF store
<1>4. 0 \in Nat /\ "failed" \in {"sent", "done", "failed"} /\ NoCard \in Card \cup {NoCard}
  OBVIOUS
<1>5. Unique' /\ TempsOK'
  BY <1>0, <1>3, <1>4, ReplyKeepsCalls
<1>. QED BY <1>1, <1>2, <1>5

\* The server commits.
LEMMA CommitKeepsAgree ==
  ASSUME AgreeInv, NEW f, Commits(f)
  PROVE  BoardOK' /\ FetchOK' /\ Unique' /\ TempsOK'
<1>0. TypesInv /\ BoardOK /\ FetchOK /\ Unique /\ TempsOK
  BY DEF AgreeInv
<1>1. BoardOK' /\ FetchOK'
  BY <1>0, CommitKeepsBoard, CommitKeepsFetch
<1>2. cards' = cards
  BY DEF Commits, store
<1>3. \/ requests' = requests
      \/ \E k \in requests : \E is \in {"sent", "done", "failed"}, c \in Card \cup {NoCard}, key \in Nat :
              requests' = (requests \ {k}) \cup {Answered(k, is, c, key)}
  BY DEF Commits
<1>4. Unique' /\ TempsOK'
  BY <1>0, <1>2, <1>3, ReplyKeepsCalls
<1>. QED BY <1>1, <1>4

\* The board goes, or is to go, off the screen.
LEMMA OffScreen ==
  ASSUME AgreeInv, UNCHANGED <<cards, requests>>
  PROVE  Unique' /\ TempsOK'
<1>1. TypesInv /\ Unique /\ TempsOK
  BY DEF AgreeInv
<1>. QED BY <1>1, ReplyKeepsCalls

\* Every step, with frames numbered in the order of the commits.
LEMMA AgreeStep ==
  ASSUME MaxUnsent = 1, AgreeInv, [StoreNext]_storeVars
  PROVE  AgreeInv'
<1>0. TypesInv /\ VersionsInv /\ TrailInv /\ BoardOK /\ FetchOK /\ Unique /\ TempsOK
  BY DEF AgreeInv
<1>1. TypesInv'
  BY <1>0, TypesStep
<1>2. VersionsInv' /\ TrailInv'
  BY <1>0, <1>1, VersionsStep, TrailStep
<1> DEFINE Rest == BoardOK /\ FetchOK /\ Unique /\ TempsOK
<1> SUFFICES Rest'
  BY <1>1, <1>2 DEF AgreeInv
<1>3. CASE PeerMove \/ PeerDelete \/ PeerCreate \/ PeerDeleteList
           \/ \E k \in requests : ServeMove(k) \/ ServeCreate(k)
  <2>1. \E f : Commits(f)
    BY <1>0, <1>3, ServerCommits
  <2>. QED BY <2>1, CommitKeepsAgree
<1>4. CASE Emit
  <2>1. Trail' = Trail
    BY <1>0, <1>1, <1>4, EmitKeeps DEF TypesInv, TrailInv
  <2>2. UNCHANGED <<rows, store, strayed, screen, fetch>> /\ lastSeq' = lastSeq /\ requests' = requests
    BY <1>4 DEF Emit
  <2>. QED BY <2>1, <2>2, FailureKeepsAgree
<1>5. ASSUME NEW k \in requests, RejectMove(k) \/ FailCall(k) PROVE Rest'
  <2>1. UNCHANGED <<rows, channel, store, strayed, screen, fetch>> /\ lastSeq' = lastSeq
    BY <1>5 DEF RejectMove, FailCall
  <2>2. Trail' = Trail
    BY <2>1 DEF Trail, channel
  <2>3. requests' = (requests \ {k}) \cup {Answered(k, "failed", NoCard, 0)}
    BY <1>5 DEF RejectMove, FailCall, Reply, Answered
  <2>. QED BY <2>1, <2>2, <2>3, FailureKeepsAgree
<1>6. ASSUME UNCHANGED <<rows, channel, lastSeq, screen, fetch>> PROVE FetchOK'
  <2>1. Trail' = Trail
    BY <1>6 DEF Trail, channel
  <2>. QED BY <1>0, <1>6, <2>1, FetchKept
<1>7. ASSUME NEW k \in requests, Settle(k) PROVE Rest'
  <2>1. FetchOK'
    BY <1>6, <1>7 DEF Settle
  <2>. QED BY <1>0, <1>7, <2>1, SettleKeepsBoard, SettleKeepsCalls
<1>8. ASSUME NEW c \in Id, NEW from \in DOMAIN lists, NEW to \in DOMAIN lists,
             NEW i \in DropPlaces(from, to), MoveCard(c, from, to, i)
      PROVE  Rest'
  <2>1. FetchOK'
    BY <1>6, <1>8 DEF MoveCard
  <2>2. BoardOK'
    BY <1>0, <1>8, DragKeepsBoard
  <2>3. Unique' /\ TempsOK'
    BY <1>0, <1>8, DragKeepsCalls
  <2>. QED BY <2>1, <2>2, <2>3
<1>9. ASSUME NEW t \in Temp, NEW l \in DOMAIN lists, AddCard(t, l) PROVE Rest'
  <2>1. FetchOK'
    BY <1>6, <1>9 DEF AddCard
  <2>. QED BY <1>0, <1>9, <2>1, AddKeepsBoard, AddKeepsCalls
<1>10. CASE ApplyFrame
  <2>1. screen' # "loading"
    BY <1>10 DEF ApplyFrame
  <2>2. FetchOK'
    BY <2>1 DEF FetchOK
  <2>. QED BY <1>0, <1>10, <2>2, FrameKeepsBoard, FrameKeepsCalls
<1>11. ASSUME NEW n, Jump(n) PROVE Rest'
  <2>1. screen' = "board" /\ needsResync' = TRUE /\ UNCHANGED <<cards, requests>>
    BY <1>11 DEF Jump
  <2>2. BoardOK' /\ FetchOK'
    BY <2>1 DEF BoardOK, Valid, FetchOK
  <2>. QED BY <2>1, <2>2, OffScreen
<1>12. CASE RefetchBoard
  <2>1. screen' = "loading" /\ UNCHANGED <<cards, requests>>
    BY <1>12 DEF RefetchBoard, store
  <2>2. BoardOK'
    BY <2>1 DEF BoardOK, Valid
  <2>. QED BY <1>12, <2>1, <2>2, RefetchStarts, OffScreen
<1>13. ASSUME NEW l \in DOMAIN fetch, ReadList(l) PROVE Rest'
  <2>1. screen' = "loading" /\ UNCHANGED <<cards, requests>>
    BY <1>13 DEF ReadList, store
  <2>2. BoardOK'
    BY <2>1 DEF BoardOK, Valid
  <2>3. FetchOK'
    BY <1>0, <1>13, ReadKeepsFetch
  <2>. QED BY <2>1, <2>2, <2>3, OffScreen
<1>14. CASE HydrateBoard
  <2>1. screen' = "board"
    BY <1>14 DEF HydrateBoard
  <2>2. FetchOK'
    BY <2>1 DEF FetchOK
  <2>. QED BY <1>0, <1>14, <2>2, HydrateGivesBoard, HydrateKeepsCalls
<1>15. CASE FetchFails
  <2>1. screen' = "error" /\ UNCHANGED <<cards, requests>>
    BY <1>15 DEF FetchFails, store
  <2>2. BoardOK' /\ FetchOK'
    BY <2>1 DEF BoardOK, Valid, FetchOK
  <2>. QED BY <2>1, <2>2, OffScreen
<1>16. CASE UNCHANGED storeVars
  <2>1. UNCHANGED <<rows, channel, store, strayed, screen, fetch>> /\ lastSeq' = lastSeq /\ requests' = requests
    BY <1>16 DEF storeVars
  <2>2. Trail' = Trail
    BY <2>1 DEF Trail, channel
  <2>. QED BY <2>1, <2>2, FailureKeepsAgree
<1>. QED
  BY <1>3, <1>4, <1>5, <1>7, <1>8, <1>9, <1>10, <1>11, <1>12, <1>13, <1>14, <1>15, <1>16 DEF StoreNext, Serve

\* The invariant holds at first.
LEMMA AgreeInitially == StoreInit => AgreeInv
<1> SUFFICES ASSUME StoreInit PROVE AgreeInv
  OBVIOUS
<1>0. TypesInv
  BY TypesInitially
<1>1. /\ open = List /\ unsent = <<>> /\ frames = <<>> /\ lists = [l \in List |-> ByKey(l)]
      /\ cards = [c \in {d \in Card : Start[d] # Nowhere} |-> row[c].key]
      /\ moveVersions = [c \in Id |-> 0] /\ lastSeq = 0 /\ requests = {} /\ screen = "board"
  BY DEF StoreInit
<1>2. VersionsInv /\ Unique
  BY <1>1 DEF VersionsInv, Unique
<1>3. TempsOK
  BY <1>1, StoreAssumption DEF TempsOK
<1>4. FetchOK
  BY <1>1 DEF FetchOK
<1>5. Len(Trail) = 0 /\ Len(unsent) = 0
  BY <1>0, <1>1, TrailIs, EmptySeq DEF TypesInv
<1>6. TrailInv
  BY <1>5 DEF TrailInv
<1>7. \A c \in Card : row[c] # Gone <=> Start[c] # Nowhere
  BY StoreAssumption DEF StoreInit, Gone
<1>8. ASSUME NEW l \in List
      PROVE  /\ \A c : Has(lists[l], c) <=> c \in In(l)
             /\ \A c : Once(lists[l], c)
  <2> DEFINE n == Cardinality(In(l))
             b == ByKey(l)
  <2>1. n \in Nat /\ b \in [1 .. n -> In(l)] /\ ToSet(b) = In(l) /\ IsInjective(b)
    BY <1>0, ByKeyIs DEF TypesInv
  <2>2. lists[l] = b
    BY <1>1
  <2> HIDE DEF n, b
  <2>3. \A c : Has(b, c) <=> c \in In(l)
    BY <2>1 DEF Has, ToSet
  <2>4. \A c : Once(b, c)
    BY <2>1 DEF Once, IsInjective
  <2>. QED BY <2>2, <2>3, <2>4
<1>9. ASSUME NEW c \in Card PROVE CardOK(c)
  <2>1. DOMAIN lists = List
    BY <1>1
  <2>2. ASSUME NEW l \in List PROVE Has(lists[l], c) <=> row[c] # Gone /\ row[c].list = l
    BY <1>8, StoreAssumption DEF In, Gone
  <2>3. Single(lists, c)
    BY <1>8, <2>1, <2>2 DEF Single
  <2>4. Listed(c) => c \in DOMAIN cards
    BY <1>1, <1>7, <2>1, <2>2 DEF Listed
  <2>5. \A v, l : Home(c, l) => End(c, v, l)
    BY <1>1 DEF End, Past
  <2>6. \A l \in DOMAIN lists : Has(lists[l], c) => End(c, moveVersions[c] + 1, l)
    BY <2>1, <2>2, <2>5 DEF Home
  <2>7. row[c] # Gone => Listed(c)
    BY <1>0, <2>1, <2>2, CardsAreListed DEF TypesInv, Listed
  <2>8. Placed(c)
    BY <1>1, <2>6, <2>7 DEF Placed
  <2>. QED BY <2>3, <2>4, <2>8 DEF CardOK
<1>10. BoardOK
  <2>1. ListsOK /\ CreatesOK
    BY <1>1 DEF ListsOK, CreatesOK
  <2>. QED BY <1>9, <2>1 DEF BoardOK
<1>. QED BY <1>0, <1>2, <1>3, <1>4, <1>6, <1>10 DEF AgreeInv

\* At rest, with no frame on its way and no request, a card is in its list.
LEMMA AgreeGivesAgrees == AgreeInv => Agrees
<1> SUFFICES ASSUME AgreeInv, Quiet, NEW l \in open, NEW c \in Id \ strayed
             PROVE  l \in DOMAIN lists /\ Cardinality(ShownAt(l, c)) = IF c \in In(l) THEN 1 ELSE 0
  BY DEF Agrees
<1>0. TypesInv /\ BoardOK /\ TempsOK /\ RowsTyped /\ FramesTyped
  BY DEF AgreeInv, TypesInv
<1>1. screen = "board" /\ ~needsResync /\ requests = {} /\ unsent = <<>> /\ lastSeq = Len(frames)
  BY DEF Quiet
<1>2. Pending = {}
  <2>1. Len(Trail) = Len(frames) + Len(unsent) /\ Len(frames) \in Nat /\ Len(unsent) = 0
    BY <1>0, <1>1, TrailIs, EmptySeq
  <2>2. Len(Trail) = lastSeq /\ lastSeq \in Nat
    BY <1>1, <2>1
  <2>. QED BY <2>2 DEF Pending
<1>3. ~Unsure /\ ~Awaited(c) /\ ~MoveAwaited(c)
  BY <1>2 DEF Unsure, Awaited, MoveAwaited
<1>4. ListsOK /\ \A d \in Card : CardOK(d)
  BY <1>0, <1>1, <1>3 DEF BoardOK, Valid
<1>5. l \in DOMAIN lists /\ l \in List /\ l # Nowhere
  BY <1>0, <1>4, StoreAssumption DEF ListsOK, RowsTyped
<1>6. CASE c \in Temp
  <2>1. c \notin DOMAIN cards /\ c \notin In(l)
    BY <1>0, <1>1, <1>6, StoreAssumption DEF TempsOK, In
  <2>2. ShownAt(l, c) = {}
    BY <2>1 DEF ShownAt
  <2>. QED BY <1>5, <2>1, <2>2, FS_EmptySet
<1>7. CASE c \in Card
  <2>1. Placed(c) /\ Single(lists, c) /\ (Listed(c) => c \in DOMAIN cards)
    BY <1>3, <1>4, <1>7 DEF CardOK
  <2>2. ASSUME NEW m \in DOMAIN lists, Has(lists[m], c) PROVE Home(c, m)
    BY <1>1, <2>1, <2>2 DEF Placed, End, Past
  <2>3. c \in In(l) <=> row[c] # Gone /\ row[c].list = l
    BY <1>5, <1>7 DEF In, Gone
  <2>4. CASE c \in In(l)
    <3>1. PICK m \in DOMAIN lists : Has(lists[m], c)
      BY <2>1, <2>3, <2>4 DEF Placed, Listed
    <3>2. m = l
      BY <2>2, <2>3, <2>4, <3>1 DEF Home
    <3>3. PICK i \in DOMAIN lists[l] : lists[l][i] = c
      BY <3>1, <3>2 DEF Has
    <3>4. c \in DOMAIN cards /\ Once(lists[l], c)
      BY <1>5, <2>1, <3>1, <3>2 DEF Listed, Single
    <3>5. ShownAt(l, c) = {i}
      BY <3>3, <3>4 DEF ShownAt, Once
    <3>. QED BY <1>5, <2>4, <3>5, FS_Singleton
  <2>5. CASE c \notin In(l)
    <3>1. ~Has(lists[l], c)
      BY <1>5, <2>2, <2>3, <2>5 DEF Home
    <3>2. ShownAt(l, c) = {}
      BY <3>1 DEF ShownAt, Has
    <3>. QED BY <1>5, <2>5, <3>2, FS_EmptySet
  <2>. QED BY <2>4, <2>5
<1>. QED BY <1>6, <1>7 DEF Id

\* A view at rest shows every card once, in the list the server has it in,
\* whatever was dragged, refused, lost, announced, skipped and loaded again
\* before (useBoardStore.ts, remoteMutations.ts, boardLoader.ts), but for the
\* cards gone astray; the frames are numbered in the order of the commits.
THEOREM ViewsAgree == MaxUnsent = 1 => (StoreSpec => []Agrees)
<1>1. MaxUnsent = 1 /\ AgreeInv /\ [StoreNext]_storeVars => AgreeInv'
  BY AgreeStep
<1>2. (MaxUnsent = 1)' <=> (MaxUnsent = 1)
  OBVIOUS
<1>. QED BY <1>1, <1>2, AgreeInitially, AgreeGivesAgrees, PTL DEF StoreSpec
=============================================================================
