------------------------------ MODULE Accounts ------------------------------
(***************************************************************************)
(* Signing in and registering characters.                                  *)
(*                                                                         *)
(* Every signed-in route of packages/server/src/api.ts begins with         *)
(* sessionAuth.  On Postgres the bearer token is validated against Supabase*)
(* Auth through a cache (SupabaseSessionValidator in pg.ts), and the first *)
(* sign-in of a user provisions a profile and an account; in memory the    *)
(* token is looked up.  A request is a slot with a program counter, one    *)
(* step per await; EventBoard.tla adds the routes of the event board.      *)
(***************************************************************************)
EXTENDS Naturals, Sequences, FiniteSets

CONSTANTS
    User,         \* users known to Supabase Auth
    Session,      \* access tokens
    UserOf,       \* the user each token was issued to
    Slug,         \* public slugs; a profile and its account are named by its slug
    Candidates,   \* the slugs a user's first sign-in tries, in order
    Name,         \* character names, already normalised
    Event,        \* event ids
    Operation,    \* the requests clients may send
    Workload,     \* what a behaviour may begin with: requests to come, the hour,
                  \* users who have signed in before, characters that exist
    Request,      \* slots for requests the server is handling
    NoSlug, NoName, NoEvent,
    MaxTime,      \* bound on the clock
    MaxFail       \* bound on exits of the process

\* One tick of the clock is half a minute: HIT_TTL_MS and MISS_TTL_MS.
HitTtl == 2
MissTtl == 1

Character == [id: Nat \ {0}, name: Name, account: Slug]

\* What a behaviour may begin with: characters are numbered from one, and none
\* shares its name.
Beginning(w) ==
    /\ w.now \in 0 .. MaxTime
    /\ w.todo \subseteq Operation
    /\ w.returning \subseteq User
    /\ w.characters \subseteq Character /\ IsFiniteSet(w.characters)
    /\ \A c \in w.characters : c.id <= Cardinality(w.characters)
    /\ \A c, d \in w.characters : c.id = d.id \/ c.name = d.name => c = d

\* An event is named by the one request that creates it.
ASSUME AccountsAssumption ==
    /\ UserOf \in [Session -> User]
    /\ Candidates \in [User -> Seq(Slug)]
    /\ \A u \in User : Candidates[u] # <<>>
    /\ NoSlug \notin Slug /\ NoName \notin Name /\ NoEvent \notin Event
    /\ Operation \subseteq [kind: {"me", "character", "create", "signup", "staff", "list"},
                            session: Session, name: Name \cup {NoName},
                            event: Event \cup {NoEvent}, explicit: BOOLEAN,
                            cap: Nat, n: Nat]
    /\ \A p \in Operation : /\ p.kind = "character" => p.name # NoName
                            /\ p.kind = "create" => p.event # NoEvent
    /\ \A p, q \in Operation :
         p.kind = "create" /\ q.kind = "create" /\ p.event = q.event => p = q
    /\ \A w \in Workload : Beginning(w)
    /\ IsFiniteSet(Request) /\ Request # {}
    /\ MaxTime \in Nat /\ MaxFail \in Nat

VARIABLES
    store,        \* "pg" or "memory": what serve.ts was started with
    now,          \* the clock
    valid,        \* the tokens Supabase Auth accepts
    signedOut,    \* when each token stopped being accepted
    cache,        \* the validator's cache
    profiles,     \* slugs of the profiles that exist
    accounts,     \* the account of each user, by its profile's slug
    characters,   \* rows of the characters table
    todo,         \* requests not sent yet
    req,          \* the requests in flight
    answers,      \* how signups, listings and the creation of events were answered
    failures,     \* exits of the process so far
    cut           \* events whose organizer's staff row an exit prevented

accVars == <<store, now, valid, signedOut, cache, profiles, accounts, characters,
             todo, req, answers, failures, cut>>

NoEntry == [until |-> 0, account |-> NoSlug]
Idle == [pc |-> "idle"]

\* The steps of signing in, and what follows for each kind of request.
SignIn == {"auth", "fetch", "lookup", "profile", "account", "winner"}
Steps == [me |-> {"me"}, character |-> {"check", "insert"},
          create |-> {"profile of organizer", "insert event", "insert organizer"},
          signup |-> {"count", "pick", "insert seat"},
          staff |-> {"event", "insert staff"}, list |-> {"list"}]

OnRoute == {"me", "check", "insert", "profile of organizer", "insert event", "insert organizer",
            "count", "pick", "insert seat", "event", "insert staff", "list"}

Busy == [pc: SignIn \cup OnRoute, op: Operation, account: Slug \cup {NoSlug},
         at: Nat, try: Nat, char: Nat]

Outcome == {"unauthorized", "limited", "me", "created", "name_taken", "closed", "duplicate",
            "full", "no_character", "ok", "no_event", "not_organizer",
            "listed", "registered", "managedByMe"}
Answer == [op: Operation, account: Slug \cup {NoSlug}, outcome: Outcome]

AccTypeOK ==
    /\ store \in {"pg", "memory"}
    /\ now \in 0 .. MaxTime
    /\ valid \subseteq Session
    /\ signedOut \in [Session -> 0 .. MaxTime]
    /\ cache \in [Session -> [until: Nat, account: Slug \cup {NoSlug}]]
    /\ profiles \subseteq Slug
    /\ accounts \in [User -> Slug \cup {NoSlug}]
    /\ characters \subseteq Character
    /\ todo \subseteq Operation
    /\ req \in [Request -> {Idle} \cup Busy]
    /\ answers \subseteq Answer
    /\ failures \in 0 .. MaxFail
    /\ cut \subseteq Event

\* The account a user has had since some earlier sign-in.
OldAccount(u) == Candidates[u][Len(Candidates[u])]

\* On a development server every account exists.
AccInit ==
    /\ store \in {"pg", "memory"}
    /\ \E w \in Workload :
        /\ now = w.now
        /\ todo = w.todo
        /\ characters = w.characters
        /\ accounts = [u \in User |-> IF store = "memory" \/ u \in w.returning
                                      THEN OldAccount(u) ELSE NoSlug]
    /\ valid = {op.session : op \in todo}
    /\ signedOut = [s \in Session |-> 0]
    /\ cache = [s \in Session |-> NoEntry]
    /\ profiles = {accounts[u] : u \in User} \ {NoSlug}
    /\ req = [r \in Request |-> Idle]
    /\ answers = {}
    /\ failures = 0
    /\ cut = {}

-----------------------------------------------------------------------------
(* Steps of a request. *)

Goto(r, pc) == req' = [req EXCEPT ![r].pc = pc]

\* The response: the slot is free again and the client knows what it was told.
Tell(r, outcomes) ==
    /\ req' = [req EXCEPT ![r] = Idle]
    /\ answers' = IF req[r].op.kind \notin {"create", "signup", "list"} THEN answers
                  ELSE answers \cup {[op |-> req[r].op, account |-> req[r].account,
                                      outcome |-> o] : o \in outcomes}

Respond(r, outcome) == Tell(r, {outcome})

\* Where a request goes once its account is known.
Route(op) ==
    CASE op.kind = "me" -> "me"
      [] op.kind = "character" -> "check"
      [] op.kind = "create" -> "profile of organizer"
      [] op.kind = "signup" -> "count"
      [] op.kind = "staff" -> "event"
      [] op.kind = "list" -> "list"

\* GET /v1/events takes a session only to mark the caller's events.
Optional(op) == op.kind = "list"

\* A client sends one of its requests.
Arrive(r) ==
    /\ req[r] = Idle
    /\ \E op \in todo :
        /\ todo' = todo \ {op}
        /\ req' = [req EXCEPT ![r] = [pc |-> "auth", op |-> op, account |-> NoSlug,
                                      at |-> 0, try |-> 0, char |-> 0]]
    /\ UNCHANGED <<store, now, valid, signedOut, cache, profiles, accounts, characters,
                   answers, failures, cut>>

SessionOf(r) == req[r].op.session

\* sessionAuth has an account, or answers 401 where one is needed.
Admit(r, a) ==
    IF a = NoSlug /\ ~Optional(req[r].op) THEN Respond(r, "unauthorized")
    ELSE /\ req' = [req EXCEPT ![r].account = a, ![r].pc = Route(req[r].op)]
         /\ UNCHANGED answers

\* getSession up to its first await: an entry that has not run out answers
\* alone, a rejection as much as a session.
Authenticate(r) ==
    /\ req[r].pc = "auth"
    /\ \/ /\ store = "memory"
          /\ Admit(r, accounts[UserOf[SessionOf(r)]])
       \/ /\ store = "pg"
          /\ cache[SessionOf(r)].until > now
          /\ Admit(r, cache[SessionOf(r)].account)
       \/ /\ store = "pg"
          /\ cache[SessionOf(r)].until <= now
          /\ req' = [req EXCEPT ![r].pc = "fetch", ![r].at = now]
          /\ UNCHANGED answers
    /\ UNCHANGED <<store, now, valid, signedOut, cache, profiles, accounts, characters,
                   todo, failures, cut>>

\* Mutant of Remember: the time to live starts when Supabase has answered.
RememberFromAnswer(r, a) ==
    /\ cache' = [cache EXCEPT ![SessionOf(r)] =
                   [until |-> now + (IF a = NoSlug THEN MissTtl ELSE HitTtl), account |-> a]]
    /\ Admit(r, a)

\* The end of getSession: the outcome is cached from the moment the request
\* came in, not from the moment Supabase answered.
Remember(r, a) ==
    /\ cache' = [cache EXCEPT ![SessionOf(r)] =
                   [until |-> req[r].at + (IF a = NoSlug THEN MissTtl ELSE HitTtl),
                    account |-> a]]
    /\ Admit(r, a)

\* GET /auth/v1/user: a clean 200, or a rejection.
Fetch(r) ==
    /\ req[r].pc = "fetch"
    /\ \/ /\ SessionOf(r) \in valid
          /\ Goto(r, "lookup")
          /\ UNCHANGED <<cache, answers>>
       \/ /\ SessionOf(r) \notin valid
          /\ Remember(r, NoSlug)
    /\ UNCHANGED <<store, now, valid, signedOut, profiles, accounts, characters, todo,
                   failures, cut>>

\* A call of validate fails, to Supabase Auth or to the database: getSession
\* catches it, and it counts as a rejection.
Outage(r) ==
    /\ req[r].pc \in SignIn \ {"auth"}
    /\ Remember(r, NoSlug)
    /\ UNCHANGED <<store, now, valid, signedOut, profiles, accounts, characters, todo,
                   failures, cut>>

\* accountFor: the user's account, or provisioning.
Lookup(r) ==
    /\ req[r].pc = "lookup"
    /\ LET a == accounts[UserOf[SessionOf(r)]] IN
        \/ /\ a # NoSlug
           /\ Remember(r, a)
        \/ /\ a = NoSlug
           /\ req' = [req EXCEPT ![r].pc = "profile", ![r].try = 1]
           /\ UNCHANGED <<cache, answers>>
    /\ UNCHANGED <<store, now, valid, signedOut, profiles, accounts, characters, todo,
                   failures, cut>>

TriedSlug(r) == Candidates[UserOf[SessionOf(r)]][req[r].try]

\* provision: insert a profile under the first candidate that is free.  A
\* taken slug is a unique violation and moves on; when none is left the
\* sign-in is rejected.
InsertProfile(r) ==
    /\ req[r].pc = "profile"
    /\ \/ /\ TriedSlug(r) \notin profiles
          /\ profiles' = profiles \cup {TriedSlug(r)}
          /\ Goto(r, "account")
          /\ UNCHANGED <<cache, answers>>
       \/ /\ TriedSlug(r) \in profiles
          /\ req[r].try < Len(Candidates[UserOf[SessionOf(r)]])
          /\ req' = [req EXCEPT ![r].try = @ + 1]
          /\ UNCHANGED <<profiles, cache, answers>>
       \/ /\ TriedSlug(r) \in profiles
          /\ req[r].try = Len(Candidates[UserOf[SessionOf(r)]])
          /\ Remember(r, NoSlug)
          /\ UNCHANGED profiles
    /\ UNCHANGED <<store, now, valid, signedOut, accounts, characters, todo, failures, cut>>

\* Mutant of InsertAccount: on conflict the row is updated, the last one wins.
InsertAccountUpsert(r) ==
    /\ req[r].pc = "account"
    /\ accounts' = [accounts EXCEPT ![UserOf[SessionOf(r)]] = TriedSlug(r)]
    /\ Remember(r, TriedSlug(r))
    /\ UNCHANGED <<store, now, valid, signedOut, profiles, characters, todo, failures, cut>>

\* insert into accounts ... on conflict (auth_user_id) do nothing returning id.
InsertAccount(r) ==
    /\ req[r].pc = "account"
    /\ LET u == UserOf[SessionOf(r)] IN
        \/ /\ accounts[u] = NoSlug
           /\ accounts' = [accounts EXCEPT ![u] = TriedSlug(r)]
           /\ Remember(r, TriedSlug(r))
        \/ /\ accounts[u] # NoSlug
           /\ Goto(r, "winner")
           /\ UNCHANGED <<accounts, cache, answers>>
    /\ UNCHANGED <<store, now, valid, signedOut, profiles, characters, todo, failures, cut>>

\* The concurrent first sign-in that won has the account.
ReadWinner(r) ==
    /\ req[r].pc = "winner"
    /\ Remember(r, accounts[UserOf[SessionOf(r)]])
    /\ UNCHANGED <<store, now, valid, signedOut, profiles, accounts, characters, todo,
                   failures, cut>>

\* GET /v1/me.
AnswerMe(r) ==
    /\ req[r].pc = "me"
    /\ Respond(r, "me")
    /\ UNCHANGED <<store, now, valid, signedOut, cache, profiles, accounts, characters,
                   todo, failures, cut>>

-----------------------------------------------------------------------------
(* POST /v1/characters. *)

NameTaken(n) == \E c \in characters : c.name = n

AddCharacter(r) ==
    /\ characters' = characters \cup
         {[id |-> Cardinality(characters) + 1, name |-> req[r].op.name,
           account |-> req[r].account]}
    /\ Respond(r, "created")

\* createCharacter in memory: the name is compared and the row added at once.
CreateInMemory(r) ==
    /\ req[r].pc = "check" /\ store = "memory"
    /\ \/ NameTaken(req[r].op.name) /\ Respond(r, "name_taken") /\ UNCHANGED characters
       \/ ~NameTaken(req[r].op.name) /\ AddCharacter(r)
    /\ UNCHANGED <<store, now, valid, signedOut, cache, profiles, accounts, todo,
                   failures, cut>>

\* createCharacter on Postgres looks for the name and inserts the row one await
\* later; no index makes names unique.
CheckName(r) ==
    /\ req[r].pc = "check" /\ store = "pg"
    /\ \/ NameTaken(req[r].op.name) /\ Respond(r, "name_taken")
       \/ ~NameTaken(req[r].op.name) /\ Goto(r, "insert") /\ UNCHANGED answers
    /\ UNCHANGED <<store, now, valid, signedOut, cache, profiles, accounts, characters,
                   todo, failures, cut>>

InsertCharacter(r) ==
    /\ req[r].pc = "insert"
    /\ AddCharacter(r)
    /\ UNCHANGED <<store, now, valid, signedOut, cache, profiles, accounts, todo,
                   failures, cut>>

-----------------------------------------------------------------------------
(* The world around the server. *)

Tick ==
    /\ now < MaxTime
    /\ now' = now + 1
    /\ UNCHANGED <<store, valid, signedOut, cache, profiles, accounts, characters,
                   todo, req, answers, failures, cut>>

\* The user signs out or the token expires (of interest while time can pass).
SignOut(s) ==
    /\ store = "pg"
    /\ now < MaxTime
    /\ s \in valid
    /\ valid' = valid \ {s}
    /\ signedOut' = [signedOut EXCEPT ![s] = now]
    /\ UNCHANGED <<store, now, cache, profiles, accounts, characters, todo, req,
                   answers, failures, cut>>

\* The rate limiter refuses a write once the account is known (429).
Throttle(r) ==
    /\ req[r].pc \in {"check", "profile of organizer", "count", "event"}
    /\ Respond(r, "limited")
    /\ UNCHANGED <<store, now, valid, signedOut, cache, profiles, accounts, characters,
                   todo, failures, cut>>

\* Events whose handlers are about to insert the organizer's staff row.
Due == {req[r].op.event : r \in {q \in Request : req[q].pc = "insert organizer"}}

\* A query of a route fails: nothing around handleRequest catches it and the
\* process exits.  The one that is started next has an empty cache, and none of
\* the requests that were in flight.
Die(r) ==
    /\ store = "pg"
    /\ req[r].pc \in OnRoute
    /\ failures < MaxFail
    /\ failures' = failures + 1
    /\ cut' = cut \cup Due
    /\ req' = [q \in Request |-> Idle]
    /\ cache' = [s \in Session |-> NoEntry]
    /\ UNCHANGED <<store, now, valid, signedOut, profiles, accounts, characters, todo, answers>>

AccountStep(r) ==
    \/ Arrive(r) \/ Authenticate(r) \/ Fetch(r) \/ Outage(r) \/ Lookup(r)
    \/ InsertProfile(r) \/ InsertAccount(r) \/ ReadWinner(r)
    \/ AnswerMe(r) \/ CreateInMemory(r) \/ CheckName(r) \/ InsertCharacter(r)
    \/ Throttle(r) \/ Die(r)

-----------------------------------------------------------------------------
(* What signing in promises. *)

\* A token the user has signed out of is honoured for at most HIT_TTL_MS
\* longer, although a validation may be answered, and cached, after the
\* sign-out (SupabaseSessionValidator.getSession).
SignedOutSoon ==
    \A s \in Session : s \notin valid /\ cache[s].account # NoSlug =>
        cache[s].until <= signedOut[s] + HitTtl

\* Whatever first sign-ins of a user overlap, all of them end in the same
\* account: the one in the table is the one every request acts for and the
\* cache holds (provision and its unique(auth_user_id) race).
OneAccountPerUser ==
    /\ \A s \in Session : cache[s].account # NoSlug => cache[s].account = accounts[UserOf[s]]
    /\ \A r \in Request : req[r] # Idle /\ req[r].account # NoSlug =>
         req[r].account = accounts[UserOf[SessionOf(r)]]

\* A name is held once in memory; on Postgres only requests that overlap can
\* share it, so it has no more holders than there are requests in flight
\* (createCharacter compares names before it inserts).
NameRaceBounded ==
    \A n \in Name :
        Cardinality({c \in characters : c.name = n})
            <= (IF store = "memory" THEN 1 ELSE Cardinality(Request))

-----------------------------------------------------------------------------
(* What requests and tables know of each other at every step. *)

InFlight == {r \in Request : req[r] # Idle}

\* A token that has been vouched for was accepted after its request came in.
Vouched == {"lookup", "profile", "account", "winner"}

SignInInv ==
    \A r \in InFlight :
        /\ req[r].pc \in SignIn \cup Steps[req[r].op.kind]
        /\ req[r].pc \in SignIn \/ Optional(req[r].op) \/ req[r].account # NoSlug
        /\ req[r].pc \in {"profile", "account"} =>
             req[r].try \in 1 .. Len(Candidates[UserOf[SessionOf(r)]])
        /\ req[r].at <= now
        /\ req[r].pc \in Vouched =>
             SessionOf(r) \in valid \/ req[r].at <= signedOut[SessionOf(r)]

\* What the cache honours runs from a moment at which the token was accepted.
CacheInv ==
    \A s \in Session : cache[s].account # NoSlug =>
        cache[s].until <= HitTtl + (IF s \in valid THEN now ELSE signedOut[s])

\* Every request is sent once and answered once.
SentOnce ==
    /\ \A r, q \in InFlight : req[r].op = req[q].op => r = q
    /\ \A r \in InFlight : req[r].op \notin todo
    /\ \A x \in answers : x.op \notin todo /\ \A r \in InFlight : x.op # req[r].op

Numbered ==
    /\ IsFiniteSet(characters)
    /\ \A c \in characters : c.id <= Cardinality(characters)
    /\ \A c, d \in characters : c.id = d.id => c = d

\* Once a name is held, those that still insert it have looked before that.
Holders(n) == {c \in characters : c.name = n}
Inserting(n) == {r \in Request : req[r].pc = "insert" /\ req[r].op.name = n}

NameInv ==
    \A n \in Name :
        /\ store = "memory" => Inserting(n) = {} /\ Cardinality(Holders(n)) <= 1
        /\ Holders(n) # {} =>
             Cardinality(Holders(n)) + Cardinality(Inserting(n)) <= Cardinality(Request)
=============================================================================
