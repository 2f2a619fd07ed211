----------------------------- MODULE SiteProofs -----------------------------
(***************************************************************************)
(* Theorems about Accounts and EventBoard: what requests of the web site   *)
(* do to each other between a test and the write it was for, over either   *)
(* store.                                                                  *)
(***************************************************************************)
EXTENDS EventBoard, FiniteSetTheorems, TLAPS

-----------------------------------------------------------------------------
(***************************************************************************)
(* What a step does to the requests: the one that takes it goes on or is   *)
(* answered, the others stay as they are.                                  *)
(***************************************************************************)

Others(r) == \A q \in Request : q # r => req'[q] = req[q]

\* The request is over.
Leaves(r) == req' \in [Request -> {Idle} \cup Busy] /\ req'[r] = Idle /\ Others(r)

\* It goes on with the account it has.
Goes(r, pc) ==
  /\ req' \in [Request -> {Idle} \cup Busy]
  /\ req'[r] \in Busy
  /\ req'[r].op = req[r].op /\ req'[r].account = req[r].account /\ req'[r].at = req[r].at
  /\ req'[r].pc = pc
  /\ Others(r)

\* It has been given its account and takes its route.
Enters(r, a) ==
  /\ req' \in [Request -> {Idle} \cup Busy]
  /\ req'[r] \in Busy
  /\ req'[r].op = req[r].op /\ req'[r].account = a /\ req'[r].at = req[r].at
  /\ req'[r].pc = Route(req[r].op)
  /\ Others(r)

Silent == answers' = answers

\* What is new among the answers was told to r.
Told(r, outcomes) ==
  /\ answers' \subseteq Answer
  /\ answers \subseteq answers'
  /\ \A x \in answers' : x \in answers \/
       /\ x.op = req[r].op /\ x.account = req[r].account
       /\ x.outcome \in outcomes
       /\ x.op.kind \in {"create", "signup", "list"}

LEMMA Assumption ==
  /\ UserOf \in [Session -> User]
  /\ Candidates \in [User -> Seq(Slug)]
  /\ \A u \in User : Candidates[u] # <<>>
  /\ NoSlug \notin Slug /\ NoName \notin Name /\ NoEvent \notin Event
  /\ MaxTime \in Nat /\ MaxFail \in Nat
  /\ IsFiniteSet(Request) /\ Request # {}
BY AccountsAssumption

LEMMA Fields ==
  ASSUME NEW op \in Operation
  PROVE  /\ op.kind \in {"me", "character", "create", "signup", "staff", "list"}
         /\ op.session \in Session
         /\ UserOf[op.session] \in User
         /\ op.event \in Event \cup {NoEvent}
         /\ op.explicit \in BOOLEAN
         /\ op.cap \in Nat
         /\ op.kind = "character" => op.name \in Name
         /\ op.kind = "create" => op.event \in Event
<1>1. op \in [kind: {"me", "character", "create", "signup", "staff", "list"},
                            session: Session, name: Name \cup {NoName},
                            event: Event \cup {NoEvent}, explicit: BOOLEAN,
                            cap: Nat, n: Nat]
  BY AccountsAssumption
<1>2. UserOf \in [Session -> User]
  BY AccountsAssumption
<1>3. op.kind = "character" => op.name # NoName
  BY AccountsAssumption
<1>4. op.kind = "create" => op.event # NoEvent
  BY AccountsAssumption
<1> QED
  BY <1>1, <1>2, <1>3, <1>4

\* A request that is somewhere is busy.
LEMMA Here ==
  ASSUME SiteTypeOK, NEW r \in Request, req[r].pc # "idle"
  PROVE  /\ r \in InFlight
         /\ req[r] \in Busy
         /\ req[r].op \in Operation
         /\ req[r].account \in Slug \cup {NoSlug}
         /\ req[r].at \in Nat /\ req[r].try \in Nat /\ req[r].char \in Nat
         /\ SessionOf(r) \in Session
         /\ UserOf[SessionOf(r)] \in User
<1>1. req[r] \in {Idle} \cup Busy
  BY DEF SiteTypeOK, AccTypeOK
<1>2. req[r] \in Busy /\ r \in InFlight
  BY <1>1 DEF Idle, InFlight
<1>3. req[r].op \in Operation
  BY <1>2 DEF Busy
<1> QED
  BY <1>2, <1>3, Fields DEF Busy, SessionOf

LEMMA Flight ==
  ASSUME SiteTypeOK, SignInInv, NEW r \in InFlight
  PROVE  r \in Request /\ req[r].pc # "idle" /\ req[r] \in Busy
<1>1. r \in Request /\ req[r] \in Busy
  BY DEF InFlight, SiteTypeOK, AccTypeOK
<1>2. req[r].op.kind \in {"me", "character", "create", "signup", "staff", "list"}
  BY <1>1, Fields DEF Busy
<1>3. req[r].pc \in SignIn \cup Steps[req[r].op.kind]
  BY DEF SignInInv
<1>4. "idle" \notin SignIn /\ \A k \in {"me", "character", "create", "signup", "staff", "list"} :
        "idle" \notin Steps[k]
  BY DEF SignIn, Steps
<1> QED
  BY <1>1, <1>2, <1>3, <1>4

\* A program counter tells what kind of request it is.
LEMMA Kinds ==
  ASSUME SiteTypeOK, SignInInv, NEW r \in Request, req[r].pc # "idle"
  PROVE  /\ req[r].pc \in {"check", "insert"} => req[r].op.kind = "character"
         /\ req[r].pc \in {"profile of organizer", "insert event", "insert organizer"} =>
              req[r].op.kind = "create"
         /\ req[r].pc \in {"count", "pick", "insert seat"} => req[r].op.kind = "signup"
         /\ req[r].pc \in {"event", "insert staff"} => req[r].op.kind = "staff"
         /\ req[r].pc = "me" => req[r].op.kind = "me"
         /\ req[r].pc = "list" => req[r].op.kind = "list"
         /\ req[r].pc \notin SignIn /\ req[r].op.kind # "list" => req[r].account \in Slug
<1>1. r \in InFlight /\ req[r].op \in Operation /\ req[r].account \in Slug \cup {NoSlug}
  BY Here
<1>2. req[r].op.kind \in {"me", "character", "create", "signup", "staff", "list"}
  BY <1>1, Fields
<1>3. /\ req[r].pc \in SignIn \cup Steps[req[r].op.kind]
      /\ req[r].pc \in SignIn \/ Optional(req[r].op) \/ req[r].account # NoSlug
  BY <1>1 DEF SignInInv
<1>4. req[r].op.kind # "list" => ~Optional(req[r].op)
  BY DEF Optional
<1>5. req[r].pc \notin SignIn => req[r].pc \in Steps[req[r].op.kind]
  BY <1>3
<1>6. /\ \A k \in {"me", "character", "create", "signup", "staff", "list"} :
           \A p \in Steps[k] :
             /\ p \in {"check", "insert"} => k = "character"
             /\ p \in {"profile of organizer", "insert event", "insert organizer"} => k = "create"
             /\ p \in {"count", "pick", "insert seat"} => k = "signup"
             /\ p \in {"event", "insert staff"} => k = "staff"
             /\ p = "me" => k = "me"
             /\ p = "list" => k = "list"
  <2>1. /\ Steps["me"] = {"me"} /\ Steps["character"] = {"check", "insert"}
        /\ Steps["create"] = {"profile of organizer", "insert event", "insert organizer"}
        /\ Steps["signup"] = {"count", "pick", "insert seat"}
        /\ Steps["staff"] = {"event", "insert staff"} /\ Steps["list"] = {"list"}
    BY DEF Steps
  <2> QED
    BY <2>1
<1>7. \A p \in SignIn : p \notin {"check", "insert", "profile of organizer", "insert event",
        "insert organizer", "count", "pick", "insert seat", "event", "insert staff", "me", "list"}
  BY DEF SignIn
<1> QED
  BY <1>1, <1>2, <1>3, <1>4, <1>5, <1>6, <1>7

LEMMA Becomes ==
  ASSUME SiteTypeOK, NEW r \in Request, NEW x \in {Idle} \cup Busy, req' = [req EXCEPT ![r] = x]
  PROVE  req' \in [Request -> {Idle} \cup Busy] /\ req'[r] = x /\ Others(r)
<1>1. req \in [Request -> {Idle} \cup Busy]
  BY DEF SiteTypeOK, AccTypeOK
<1> QED
  BY <1>1 DEF Others

LEMMA GotoShape ==
  ASSUME SiteTypeOK, NEW r \in Request, req[r] \in Busy, NEW pc \in SignIn \cup OnRoute, Goto(r, pc)
  PROVE  Goes(r, pc)
<1> DEFINE x == [req[r] EXCEPT !.pc = pc]
<1>1. x \in Busy /\ x.op = req[r].op /\ x.account = req[r].account /\ x.at = req[r].at /\ x.pc = pc
  BY DEF Busy
<1>2. req' = [req EXCEPT ![r] = x]
  BY DEF Goto
<1> HIDE DEF x
<1>3. req' \in [Request -> {Idle} \cup Busy] /\ req'[r] = x /\ Others(r)
  BY <1>1, <1>2, Becomes
<1> QED
  BY <1>1, <1>3 DEF Goes

LEMMA TellShape ==
  ASSUME SiteTypeOK, NEW r \in Request, req[r] \in Busy, NEW outcomes \in SUBSET Outcome,
         Tell(r, outcomes)
  PROVE  Leaves(r) /\ Told(r, outcomes)
<1>1. req' = [req EXCEPT ![r] = Idle]
  BY DEF Tell
<1>2. Leaves(r)
  BY <1>1, Becomes DEF Leaves
<1>3. answers \subseteq Answer
  BY DEF SiteTypeOK, AccTypeOK
<1>4. CASE req[r].op.kind \notin {"create", "signup", "list"}
  <2>1. answers' = answers
    BY <1>4 DEF Tell
  <2> QED
    BY <1>2, <1>3, <2>1 DEF Told
<1>5. CASE req[r].op.kind \in {"create", "signup", "list"}
  <2>1. answers' = answers \cup {[op |-> req[r].op, account |-> req[r].account,
                                      outcome |-> o] : o \in outcomes}
    BY <1>5 DEF Tell
  <2>2. \A o \in outcomes : [op |-> req[r].op, account |-> req[r].account, outcome |-> o] \in Answer
    BY DEF Answer, Busy
  <2>3. answers' \subseteq Answer /\ answers \subseteq answers'
    BY <1>3, <2>1, <2>2
  <2>4. ASSUME NEW x \in answers', x \notin answers
        PROVE  /\ x.op = req[r].op /\ x.account = req[r].account
               /\ x.outcome \in outcomes
               /\ x.op.kind \in {"create", "signup", "list"}
    <3>1. PICK o \in outcomes : x = [op |-> req[r].op, account |-> req[r].account, outcome |-> o]
      BY <2>1, <2>4
    <3> QED
      BY <3>1, <1>5
  <2> QED
    BY <1>2, <2>3, <2>4 DEF Told
<1> QED
  BY <1>4, <1>5

LEMMA RespondShape ==
  ASSUME SiteTypeOK, NEW r \in Request, req[r] \in Busy, NEW o \in Outcome, Respond(r, o)
  PROVE  Leaves(r) /\ Told(r, {o})
BY TellShape DEF Respond

LEMMA AdmitShape ==
  ASSUME SiteTypeOK, NEW r \in Request, req[r] \in Busy, NEW a \in Slug \cup {NoSlug}, Admit(r, a)
  PROVE  \/ a = NoSlug /\ Leaves(r) /\ Told(r, {"unauthorized"})
         \/ (a # NoSlug \/ Optional(req[r].op)) /\ Enters(r, a) /\ Silent
<1>1. CASE a = NoSlug /\ ~Optional(req[r].op)
  <2>1. Respond(r, "unauthorized")
    BY <1>1 DEF Admit
  <2>2. Leaves(r) /\ Told(r, {"unauthorized"})
    BY <2>1, RespondShape DEF Outcome
  <2> QED
    BY <1>1, <2>2
<1>2. CASE ~(a = NoSlug /\ ~Optional(req[r].op))
  <2> DEFINE p == Route(req[r].op)
  <2> DEFINE x == [req[r] EXCEPT !.account = a, !.pc = p]
  <2>1. p \in SignIn \cup OnRoute
    <3>1. req[r].op.kind \in {"me", "character", "create", "signup", "staff", "list"}
      BY Fields DEF Busy
    <3>2. p \in {"me", "check", "profile of organizer", "count", "event", "list"}
      BY <3>1 DEF Route
    <3> QED
      BY <3>2 DEF OnRoute
  <2>2. req' = [req EXCEPT ![r] = x] /\ Silent
    BY <1>2 DEF Admit, Silent
  <2> HIDE DEF p
  <2>3. x \in Busy /\ x.op = req[r].op /\ x.account = a /\ x.at = req[r].at /\ x.pc = p
    BY <2>1 DEF Busy
  <2> HIDE DEF x
  <2>4. req' \in [Request -> {Idle} \cup Busy] /\ req'[r] = x /\ Others(r)
    BY <2>2, <2>3, Becomes
  <2> QED
    BY <1>2, <2>2, <2>3, <2>4 DEF Enters, p
<1> QED
  BY <1>1, <1>2

-----------------------------------------------------------------------------
(***************************************************************************)
(* Signing in.                                                             *)
(***************************************************************************)

AccountOf(r) == accounts[UserOf[SessionOf(r)]]

\* The request goes on signing in.
Continues(r) ==
  /\ req' \in [Request -> {Idle} \cup Busy]
  /\ req'[r] \in Busy
  /\ req'[r].op = req[r].op /\ req'[r].account = req[r].account
  /\ req'[r].at \in {req[r].at, now}
  /\ req'[r].pc \in SignIn
  /\ req'[r].pc \in {"profile", "account"} =>
       req'[r].try \in 1 .. Len(Candidates[UserOf[SessionOf(r)]])
  /\ req'[r].pc \in Vouched =>
       /\ req'[r].at = req[r].at
       /\ SessionOf(r) \in valid \/ req[r].pc \in Vouched
  /\ Others(r)

\* The table gives a user an account at most once, and the cache holds the
\* account in the table, from a moment at which the token was good.
Provisions(r) ==
  \/ accounts' = accounts
  \/ /\ AccountOf(r) = NoSlug
     /\ \E a \in Slug : accounts' = [accounts EXCEPT ![UserOf[SessionOf(r)]] = a]

Caches(r) ==
  \/ cache' = cache
  \/ \E a \in Slug \cup {NoSlug}, t \in Nat :
       /\ cache' = [cache EXCEPT ![SessionOf(r)] = [until |-> t, account |-> a]]
       /\ a # NoSlug => /\ a = accounts'[UserOf[SessionOf(r)]]
                        /\ t <= req[r].at + HitTtl
                        /\ req[r].pc \in Vouched

SignInStep(r) ==
  /\ req[r] \in Busy /\ req[r].pc \in SignIn
  /\ \/ Leaves(r) /\ Told(r, {"unauthorized"})
     \/ Continues(r) /\ Silent
     \/ /\ Silent
        /\ \E a \in Slug \cup {NoSlug} :
             /\ Enters(r, a)
             /\ a # NoSlug \/ Optional(req[r].op)
             /\ a # NoSlug => a = accounts'[UserOf[SessionOf(r)]]
  /\ Provisions(r) /\ Caches(r)
  /\ profiles' \subseteq Slug
  /\ UNCHANGED <<failures, cut>>
  /\ UNCHANGED <<store, now, valid, signedOut, characters, todo, boardVars>>

LEMMA RememberShape ==
  ASSUME SiteTypeOK, NEW r \in Request, req[r] \in Busy, NEW a \in Slug \cup {NoSlug},
         Remember(r, a),
         a # NoSlug => a = accounts'[UserOf[SessionOf(r)]] /\ req[r].pc \in Vouched
  PROVE  /\ Caches(r)
         /\ \/ Leaves(r) /\ Told(r, {"unauthorized"})
            \/ /\ Silent
               /\ \E b \in Slug \cup {NoSlug} :
                    /\ Enters(r, b)
                    /\ b # NoSlug \/ Optional(req[r].op)
                    /\ b # NoSlug => b = accounts'[UserOf[SessionOf(r)]]
<1> DEFINE t == req[r].at + (IF a = NoSlug THEN MissTtl ELSE HitTtl)
<1>1. cache' = [cache EXCEPT ![SessionOf(r)] = [until |-> t, account |-> a]] /\ Admit(r, a)
  BY DEF Remember
<1>2. t \in Nat /\ (a # NoSlug => t <= req[r].at + HitTtl)
  BY DEF Busy, MissTtl, HitTtl
<1> HIDE DEF t
<1>3. Caches(r)
  BY <1>1, <1>2 DEF Caches
<1>4. \/ a = NoSlug /\ Leaves(r) /\ Told(r, {"unauthorized"})
      \/ (a # NoSlug \/ Optional(req[r].op)) /\ Enters(r, a) /\ Silent
  BY <1>1, AdmitShape
<1> QED
  BY <1>3, <1>4

\* The same at a step that has looked up nothing new.
LEMMA RejectShape ==
  ASSUME SiteTypeOK, NEW r \in Request, req[r] \in Busy, Remember(r, NoSlug)
  PROVE  /\ Caches(r)
         /\ \/ Leaves(r) /\ Told(r, {"unauthorized"})
            \/ /\ Silent
               /\ \E b \in Slug \cup {NoSlug} :
                    /\ Enters(r, b)
                    /\ b # NoSlug \/ Optional(req[r].op)
                    /\ b # NoSlug => b = accounts'[UserOf[SessionOf(r)]]
BY RememberShape

LEMMA AuthenticateSigns ==
  ASSUME SiteInv, NEW r \in Request, Authenticate(r), UNCHANGED boardVars
  PROVE  SignInStep(r)
<1>1. SiteTypeOK /\ OneAccountPerUser
  BY DEF SiteInv
<1>2. req[r].pc = "auth" /\ UNCHANGED <<store, now, valid, signedOut, cache, profiles, accounts,
        characters, todo, failures, cut>>
  BY DEF Authenticate
<1>3. req[r] \in Busy /\ SessionOf(r) \in Session /\ UserOf[SessionOf(r)] \in User
  BY <1>1, <1>2, Here
<1>4. profiles' \subseteq Slug /\ UNCHANGED <<failures, cut>>
  BY <1>1, <1>2, Assumption DEF SiteTypeOK, AccTypeOK
<1>5. accounts[UserOf[SessionOf(r)]] \in Slug \cup {NoSlug}
      /\ cache[SessionOf(r)].account \in Slug \cup {NoSlug}
  BY <1>1, <1>3 DEF SiteTypeOK, AccTypeOK
<1>6. cache[SessionOf(r)].account # NoSlug =>
        cache[SessionOf(r)].account = accounts[UserOf[SessionOf(r)]]
  BY <1>1, <1>3 DEF OneAccountPerUser
<1>7. Provisions(r) /\ Caches(r)
  BY <1>2 DEF Provisions, Caches
<1>8. req[r].pc \in SignIn
  BY <1>2 DEF SignIn
<1>9. CASE Admit(r, accounts[UserOf[SessionOf(r)]])
  <2>1. \/ Leaves(r) /\ Told(r, {"unauthorized"})
        \/ /\ accounts[UserOf[SessionOf(r)]] # NoSlug \/ Optional(req[r].op)
           /\ Enters(r, accounts[UserOf[SessionOf(r)]]) /\ Silent
    BY <1>1, <1>3, <1>5, <1>9, AdmitShape
  <2> QED
    BY <1>2, <1>3, <1>4, <1>5, <1>7, <1>8, <2>1 DEF SignInStep
<1>10. CASE Admit(r, cache[SessionOf(r)].account)
  <2>1. \/ Leaves(r) /\ Told(r, {"unauthorized"})
        \/ /\ cache[SessionOf(r)].account # NoSlug \/ Optional(req[r].op)
           /\ Enters(r, cache[SessionOf(r)].account) /\ Silent
    BY <1>1, <1>3, <1>5, <1>10, AdmitShape
  <2> QED
    BY <1>2, <1>3, <1>4, <1>5, <1>6, <1>7, <1>8, <2>1 DEF SignInStep
<1>11. CASE req' = [req EXCEPT ![r].pc = "fetch", ![r].at = now] /\ answers' = answers
  <2> DEFINE x == [req[r] EXCEPT !.pc = "fetch", !.at = now]
  <2>1. now \in Nat
    BY <1>1, Assumption DEF SiteTypeOK, AccTypeOK
  <2>2. x \in Busy /\ x.op = req[r].op /\ x.account = req[r].account /\ x.at = now /\ x.pc = "fetch"
    BY <1>3, <2>1 DEF Busy, SignIn
  <2>3. req' = [req EXCEPT ![r] = x]
    BY <1>11
  <2> HIDE DEF x
  <2>4. req' \in [Request -> {Idle} \cup Busy] /\ req'[r] = x /\ Others(r)
    BY <1>1, <2>2, <2>3, Becomes
  <2>5. Continues(r) /\ Silent
    BY <1>11, <2>2, <2>4 DEF Continues, Silent, SignIn, Vouched
  <2> QED
    BY <1>2, <1>3, <1>4, <1>7, <1>8, <2>5 DEF SignInStep
<1> QED
  BY <1>9, <1>10, <1>11 DEF Authenticate

\* A step that only moves the program counter of a request that signs in.
LEMMA GotoSigns ==
  ASSUME SiteTypeOK, SignInInv, NEW r \in Request, req[r] \in Busy, req[r].pc \in SignIn,
         NEW pc \in SignIn, Goto(r, pc),
         pc = "account" => req[r].pc = "profile",
         pc # "profile",
         pc \in Vouched => SessionOf(r) \in valid \/ req[r].pc \in Vouched
  PROVE  Continues(r)
<1> DEFINE x == [req[r] EXCEPT !.pc = pc]
<1>1. x \in Busy /\ x.op = req[r].op /\ x.account = req[r].account /\ x.at = req[r].at /\ x.pc = pc
      /\ x.try = req[r].try
  BY DEF Busy
<1>2. req' = [req EXCEPT ![r] = x]
  BY DEF Goto
<1> HIDE DEF x
<1>3. req' \in [Request -> {Idle} \cup Busy] /\ req'[r] = x /\ Others(r)
  BY <1>1, <1>2, Becomes
<1>4. req[r].pc = "profile" => req[r].try \in 1 .. Len(Candidates[UserOf[SessionOf(r)]])
  <2>1. req[r].pc = "profile" => r \in InFlight
    BY DEF InFlight, Idle
  <2> QED
    BY <2>1 DEF SignInInv
<1> QED
  BY <1>1, <1>3, <1>4 DEF Continues

LEMMA FetchSigns ==
  ASSUME SiteInv, NEW r \in Request, Fetch(r), UNCHANGED boardVars
  PROVE  SignInStep(r)
<1>1. SiteTypeOK /\ SignInInv
  BY DEF SiteInv
<1>2. req[r].pc = "fetch" /\ UNCHANGED <<store, now, valid, signedOut, profiles, accounts,
        characters, todo, failures, cut>>
  BY DEF Fetch
<1>3. req[r] \in Busy /\ SessionOf(r) \in Session /\ UserOf[SessionOf(r)] \in User
  BY <1>1, <1>2, Here
<1>4. profiles' \subseteq Slug
  BY <1>1, <1>2 DEF SiteTypeOK, AccTypeOK
<1>5. req[r].pc \in SignIn /\ Provisions(r)
  BY <1>2 DEF SignIn, Provisions
<1>6. CASE SessionOf(r) \in valid /\ Goto(r, "lookup") /\ UNCHANGED <<cache, answers>>
  <2>1. Continues(r)
    BY <1>1, <1>2, <1>3, <1>5, <1>6, GotoSigns DEF SignIn
  <2> QED
    BY <1>2, <1>3, <1>4, <1>5, <1>6, <2>1 DEF SignInStep, Silent, Caches
<1>7. CASE Remember(r, NoSlug)
  BY <1>1, <1>2, <1>3, <1>4, <1>5, <1>7, RejectShape DEF SignInStep
<1> QED
  BY <1>6, <1>7 DEF Fetch

LEMMA OutageSigns ==
  ASSUME SiteInv, NEW r \in Request, Outage(r), UNCHANGED boardVars
  PROVE  SignInStep(r)
<1>1. SiteTypeOK
  BY DEF SiteInv
<1>2. req[r].pc \in SignIn \ {"auth"} /\ Remember(r, NoSlug)
      /\ UNCHANGED <<store, now, valid, signedOut, profiles, accounts, characters, todo,
                     failures, cut>>
  BY DEF Outage
<1>3. req[r] \in Busy /\ SessionOf(r) \in Session /\ UserOf[SessionOf(r)] \in User
  BY <1>1, <1>2, Here DEF SignIn
<1>4. profiles' \subseteq Slug /\ Provisions(r)
  BY <1>1, <1>2 DEF SiteTypeOK, AccTypeOK, Provisions
<1> QED
  BY <1>1, <1>2, <1>3, <1>4, RejectShape DEF SignInStep

LEMMA LookupSigns ==
  ASSUME SiteInv, NEW r \in Request, Lookup(r), UNCHANGED boardVars
  PROVE  SignInStep(r)
<1>1. SiteTypeOK /\ SignInInv
  BY DEF SiteInv
<1>2. req[r].pc = "lookup" /\ UNCHANGED <<store, now, valid, signedOut, profiles, accounts,
        characters, todo, failures, cut>>
  BY DEF Lookup
<1>3. req[r] \in Busy /\ SessionOf(r) \in Session /\ UserOf[SessionOf(r)] \in User
  BY <1>1, <1>2, Here
<1>4. profiles' \subseteq Slug /\ UNCHANGED <<failures, cut>>
  BY <1>1, <1>2, Assumption DEF SiteTypeOK, AccTypeOK
<1>5. req[r].pc \in SignIn /\ req[r].pc \in Vouched /\ Provisions(r)
  BY <1>2 DEF SignIn, Provisions, Vouched
<1>6. accounts[UserOf[SessionOf(r)]] \in Slug \cup {NoSlug}
  BY <1>1, <1>3 DEF SiteTypeOK, AccTypeOK
<1>7. CASE Remember(r, accounts[UserOf[SessionOf(r)]])
  <2>1. /\ Caches(r)
        /\ \/ Leaves(r) /\ Told(r, {"unauthorized"})
           \/ /\ Silent
              /\ \E b \in Slug \cup {NoSlug} :
                   /\ Enters(r, b)
                   /\ b # NoSlug \/ Optional(req[r].op)
                   /\ b # NoSlug => b = accounts'[UserOf[SessionOf(r)]]
    BY <1>1, <1>2, <1>3, <1>5, <1>6, <1>7, RememberShape
  <2> QED
    BY <1>2, <1>3, <1>4, <1>5, <2>1 DEF SignInStep
<1>8. CASE req' = [req EXCEPT ![r].pc = "profile", ![r].try = 1] /\ UNCHANGED <<cache, answers>>
  <2> DEFINE x == [req[r] EXCEPT !.pc = "profile", !.try = 1]
  <2>1. x \in Busy /\ x.op = req[r].op /\ x.account = req[r].account /\ x.at = req[r].at
        /\ x.pc = "profile" /\ x.try = 1
    BY <1>3 DEF Busy, SignIn
  <2>2. req' = [req EXCEPT ![r] = x]
    BY <1>8
  <2> HIDE DEF x
  <2>3. req' \in [Request -> {Idle} \cup Busy] /\ req'[r] = x /\ Others(r)
    BY <1>1, <2>1, <2>2, Becomes
  <2>4. 1 \in 1 .. Len(Candidates[UserOf[SessionOf(r)]])
    BY <1>3, Assumption
  <2>5. Continues(r)
    BY <1>5, <2>1, <2>3, <2>4 DEF Continues, SignIn
  <2> QED
    BY <1>2, <1>3, <1>4, <1>5, <1>8, <2>5 DEF SignInStep, Silent, Caches
<1> QED
  BY <1>7, <1>8 DEF Lookup

\* The candidate that is tried.
LEMMA Tried ==
  ASSUME SiteTypeOK, SignInInv, NEW r \in Request, req[r].pc \in {"profile", "account"}
  PROVE  /\ TriedSlug(r) \in Slug
         /\ req[r].try \in 1 .. Len(Candidates[UserOf[SessionOf(r)]])
         /\ Len(Candidates[UserOf[SessionOf(r)]]) \in Nat
<1>1. r \in InFlight /\ UserOf[SessionOf(r)] \in User
  BY Here
<1>2. req[r].try \in 1 .. Len(Candidates[UserOf[SessionOf(r)]])
  BY <1>1 DEF SignInInv
<1>3. Candidates[UserOf[SessionOf(r)]] \in Seq(Slug)
  BY <1>1, Assumption
<1> QED
  BY <1>2, <1>3 DEF TriedSlug

LEMMA InsertProfileSigns ==
  ASSUME SiteInv, NEW r \in Request, InsertProfile(r), UNCHANGED boardVars
  PROVE  SignInStep(r)
<1>1. SiteTypeOK /\ SignInInv
  BY DEF SiteInv
<1>2. req[r].pc = "profile" /\ UNCHANGED <<store, now, valid, signedOut, accounts,
        characters, todo, failures, cut>>
  BY DEF InsertProfile
<1>3. req[r] \in Busy /\ SessionOf(r) \in Session /\ UserOf[SessionOf(r)] \in User
  BY <1>1, <1>2, Here
<1>4. /\ TriedSlug(r) \in Slug
      /\ req[r].try \in 1 .. Len(Candidates[UserOf[SessionOf(r)]])
      /\ Len(Candidates[UserOf[SessionOf(r)]]) \in Nat
  BY <1>1, <1>2, Tried
<1>5. profiles' \subseteq Slug
  <2>1. profiles' = profiles \/ profiles' = profiles \cup {TriedSlug(r)}
    BY DEF InsertProfile
  <2>2. profiles \subseteq Slug
    BY <1>1 DEF SiteTypeOK, AccTypeOK
  <2> QED
    BY <1>4, <2>1, <2>2
<1>6. UNCHANGED <<failures, cut>>
  BY <1>1, <1>2, Assumption DEF SiteTypeOK, AccTypeOK
<1>7. req[r].pc \in SignIn /\ req[r].pc \in Vouched /\ Provisions(r)
  BY <1>2 DEF SignIn, Provisions, Vouched
<1>8. CASE Goto(r, "account") /\ UNCHANGED <<cache, answers>>
  <2>1. Continues(r)
    BY <1>1, <1>2, <1>3, <1>7, <1>8, GotoSigns DEF SignIn
  <2> QED
    BY <1>2, <1>3, <1>5, <1>6, <1>7, <1>8, <2>1 DEF SignInStep, Silent, Caches
<1>9. CASE /\ req[r].try < Len(Candidates[UserOf[SessionOf(r)]])
           /\ req' = [req EXCEPT ![r].try = @ + 1] /\ UNCHANGED <<cache, answers>>
  <2> DEFINE x == [req[r] EXCEPT !.try = req[r].try + 1]
  <2>1. x \in Busy /\ x.op = req[r].op /\ x.account = req[r].account /\ x.at = req[r].at
        /\ x.pc = req[r].pc /\ x.try = req[r].try + 1
    BY <1>3 DEF Busy
  <2>2. req' = [req EXCEPT ![r] = x]
    BY <1>9
  <2> HIDE DEF x
  <2>3. req' \in [Request -> {Idle} \cup Busy] /\ req'[r] = x /\ Others(r)
    BY <1>1, <2>1, <2>2, Becomes
  <2>4. req[r].try + 1 \in 1 .. Len(Candidates[UserOf[SessionOf(r)]])
    BY <1>4, <1>9
  <2>5. Continues(r)
    BY <1>7, <2>1, <2>3, <2>4 DEF Continues
  <2> QED
    BY <1>2, <1>3, <1>5, <1>6, <1>7, <1>9, <2>5 DEF SignInStep, Silent, Caches
<1>10. CASE Remember(r, NoSlug)
  BY <1>1, <1>2, <1>3, <1>5, <1>6, <1>7, <1>10, RejectShape DEF SignInStep
<1> QED
  BY <1>8, <1>9, <1>10 DEF InsertProfile

LEMMA InsertAccountSigns ==
  ASSUME SiteInv, NEW r \in Request, InsertAccount(r), UNCHANGED boardVars
  PROVE  SignInStep(r)
<1>1. SiteTypeOK /\ SignInInv
  BY DEF SiteInv
<1>2. req[r].pc = "account" /\ UNCHANGED <<store, now, valid, signedOut, profiles,
        characters, todo, failures, cut>>
  BY DEF InsertAccount
<1>3. req[r] \in Busy /\ SessionOf(r) \in Session /\ UserOf[SessionOf(r)] \in User
  BY <1>1, <1>2, Here
<1>4. TriedSlug(r) \in Slug
  BY <1>1, <1>2, Tried
<1>5. profiles' \subseteq Slug /\ UNCHANGED <<failures, cut>>
  BY <1>1, <1>2, Assumption DEF SiteTypeOK, AccTypeOK
<1>6. req[r].pc \in SignIn /\ req[r].pc \in Vouched
  BY <1>2 DEF SignIn, Vouched
<1>7. CASE /\ accounts[UserOf[SessionOf(r)]] = NoSlug
           /\ accounts' = [accounts EXCEPT ![UserOf[SessionOf(r)]] = TriedSlug(r)]
           /\ Remember(r, TriedSlug(r))
  <2>1. Provisions(r)
    BY <1>4, <1>7 DEF Provisions, AccountOf
  <2>2. TriedSlug(r) = accounts'[UserOf[SessionOf(r)]]
    BY <1>1, <1>3, <1>7 DEF SiteTypeOK, AccTypeOK
  <2>3. /\ Caches(r)
        /\ \/ Leaves(r) /\ Told(r, {"unauthorized"})
           \/ /\ Silent
              /\ \E b \in Slug \cup {NoSlug} :
                   /\ Enters(r, b)
                   /\ b # NoSlug \/ Optional(req[r].op)
                   /\ b # NoSlug => b = accounts'[UserOf[SessionOf(r)]]
    BY <1>1, <1>3, <1>4, <1>6, <1>7, <2>2, RememberShape
  <2> QED
    BY <1>2, <1>3, <1>5, <1>6, <2>1, <2>3 DEF SignInStep
<1>8. CASE Goto(r, "winner") /\ UNCHANGED <<accounts, cache, answers>>
  <2>1. Continues(r)
    BY <1>1, <1>2, <1>3, <1>6, <1>8, GotoSigns DEF SignIn
  <2> QED
    BY <1>2, <1>3, <1>5, <1>6, <1>8, <2>1 DEF SignInStep, Silent, Caches, Provisions
<1> QED
  BY <1>7, <1>8 DEF InsertAccount

LEMMA ReadWinnerSigns ==
  ASSUME SiteInv, NEW r \in Request, ReadWinner(r), UNCHANGED boardVars
  PROVE  SignInStep(r)
<1>1. SiteTypeOK /\ SignInInv
  BY DEF SiteInv
<1>2. req[r].pc = "winner" /\ UNCHANGED <<store, now, valid, signedOut, profiles, accounts,
        characters, todo, failures, cut>> /\ Remember(r, accounts[UserOf[SessionOf(r)]])
  BY DEF ReadWinner
<1>3. req[r] \in Busy /\ SessionOf(r) \in Session /\ UserOf[SessionOf(r)] \in User
  BY <1>1, <1>2, Here
<1>4. profiles' \subseteq Slug /\ UNCHANGED <<failures, cut>>
  BY <1>1, <1>2, Assumption DEF SiteTypeOK, AccTypeOK
<1>5. req[r].pc \in SignIn /\ req[r].pc \in Vouched /\ Provisions(r)
  BY <1>2 DEF SignIn, Provisions, Vouched
<1>6. accounts[UserOf[SessionOf(r)]] \in Slug \cup {NoSlug}
  BY <1>1, <1>3 DEF SiteTypeOK, AccTypeOK
<1>7. /\ Caches(r)
      /\ \/ Leaves(r) /\ Told(r, {"unauthorized"})
         \/ /\ Silent
            /\ \E b \in Slug \cup {NoSlug} :
                 /\ Enters(r, b)
                 /\ b # NoSlug \/ Optional(req[r].op)
                 /\ b # NoSlug => b = accounts'[UserOf[SessionOf(r)]]
  BY <1>1, <1>2, <1>3, <1>5, <1>6, RememberShape
<1> QED
  BY <1>2, <1>3, <1>4, <1>5, <1>7 DEF SignInStep

-----------------------------------------------------------------------------
(***************************************************************************)
(* Frames: what keeps each part of the invariant.                          *)
(***************************************************************************)

\* The request of r is over, or goes on anywhere but to the steps P.
Avoids(r, P) ==
  /\ req[r] \in Busy
  /\ req' \in [Request -> {Idle} \cup Busy]
  /\ Others(r)
  /\ req'[r] = Idle \/ (req'[r] \in Busy /\ req'[r].op = req[r].op /\ req'[r].pc \notin P)

\* What is told of seats is true of the tables, and no event is said to be there.
SeatsTold ==
  \A x \in answers' : x \in answers \/
    (x.outcome \in {"ok", "duplicate", "registered"} => Registered(x.op.event, x.account))

NoneCreated ==
  \A x \in answers' : x \in answers \/ ~(x.op.kind = "create" /\ x.outcome = "created")

Truthful == SeatsTold /\ NoneCreated

LEMMA IdlePc ==
  Idle.pc = "idle"
BY DEF Idle

LEMMA Failures ==
  ASSUME SiteTypeOK
  PROVE  failures \in Nat /\ failures \in 0 .. MaxFail
         /\ now \in Nat /\ now \in 0 .. MaxTime
BY Assumption DEF SiteTypeOK, AccTypeOK

LEMMA RoutePc ==
  ASSUME NEW op \in Operation
  PROVE  /\ Route(op) \in Steps[op.kind]
         /\ Route(op) \in OnRoute
         /\ Route(op) \notin SignIn
         /\ Route(op) \notin {"insert", "insert event", "insert organizer", "pick", "insert seat",
                              "insert staff"}
<1>1. op.kind \in {"me", "character", "create", "signup", "staff", "list"}
  BY Fields
<1>2. CASE op.kind = "me"
  BY <1>2 DEF Route, Steps, OnRoute, SignIn
<1>3. CASE op.kind = "character"
  BY <1>3 DEF Route, Steps, OnRoute, SignIn
<1>4. CASE op.kind = "create"
  BY <1>4 DEF Route, Steps, OnRoute, SignIn
<1>5. CASE op.kind = "signup"
  BY <1>5 DEF Route, Steps, OnRoute, SignIn
<1>6. CASE op.kind = "staff"
  BY <1>6 DEF Route, Steps, OnRoute, SignIn
<1>7. CASE op.kind = "list"
  BY <1>7 DEF Route, Steps, OnRoute, SignIn
<1> QED
  BY <1>1, <1>2, <1>3, <1>4, <1>5, <1>6, <1>7

LEMMA SentOnceKept ==
  ASSUME SentOnce, NEW r \in InFlight, todo' = todo, Others(r),
         \/ req'[r] = Idle /\ \E outcomes : Told(r, outcomes)
         \/ req'[r].op = req[r].op /\ Silent
  PROVE  SentOnce'
<1>1. \A q \in InFlight' : q \in InFlight /\ req'[q].op = req[q].op
  BY DEF InFlight, Others
<1>2. (\A q, p \in InFlight : req[q].op = req[p].op => q = p) /\ \A q \in InFlight : req[q].op \notin todo
  BY DEF SentOnce
<1>3. ASSUME NEW x \in answers'
      PROVE  x.op \notin todo /\ \A q \in InFlight' : x.op # req'[q].op
  <2>1. CASE x \in answers
    BY <1>1, <2>1 DEF SentOnce
  <2>2. CASE x \notin answers
    <3>1. x.op = req[r].op /\ req'[r] = Idle
      BY <2>2 DEF Told, Silent
    <3>2. r \notin InFlight'
      BY <3>1 DEF InFlight
    <3> QED
      BY <1>1, <1>2, <3>1, <3>2
  <2> QED
    BY <2>1, <2>2
<1>4. (\A q, p \in InFlight' : req'[q].op = req'[p].op => q = p)
      /\ \A q \in InFlight' : req'[q].op \notin todo
  BY <1>1, <1>2
<1> QED
  BY <1>3, <1>4 DEF SentOnce

LEMMA NumberedKept ==
  ASSUME Numbered, characters' = characters
  PROVE  Numbered'
BY DEF Numbered

\* The finite sets that are counted.
LEMMA Counted ==
  ASSUME SiteInv
  PROVE  /\ \A n : IsFiniteSet(Holders(n)) /\ Cardinality(Holders(n)) \in Nat
         /\ \A n : IsFiniteSet(Inserting(n)) /\ Cardinality(Inserting(n)) \in Nat
         /\ \A e : IsFiniteSet(SeatsOf(e)) /\ Cardinality(SeatsOf(e)) \in Nat
         /\ \A e : IsFiniteSet(Entering(e)) /\ Cardinality(Entering(e)) \in Nat
         /\ \A n : Cardinality(Inserting(n)) <= Cardinality(Request)
         /\ \A e : Cardinality(Entering(e)) <= Cardinality(Request)
         /\ Cardinality(Request) \in Nat \ {0}
<1>1. IsFiniteSet(characters) /\ IsFiniteSet(seats) /\ IsFiniteSet(Request) /\ Request # {}
  BY Assumption DEF SiteInv, Numbered, SeatInv
<1>2. \A S, T : IsFiniteSet(S) /\ T \in SUBSET S =>
        IsFiniteSet(T) /\ Cardinality(T) \in Nat /\ Cardinality(T) <= Cardinality(S)
  BY FS_Subset, FS_CardinalityType
<1>3. \A n : Holders(n) \in SUBSET characters /\ Inserting(n) \in SUBSET Request
  BY DEF Holders, Inserting
<1>4. \A e : SeatsOf(e) \in SUBSET seats /\ Entering(e) \in SUBSET Request
  BY DEF SeatsOf, Entering
<1>5. Cardinality(Request) \in Nat \ {0}
  BY <1>1, FS_CardinalityType, FS_EmptySet
<1>6. \A n : IsFiniteSet(Holders(n)) /\ Cardinality(Holders(n)) \in Nat
  BY <1>1, <1>2, <1>3
<1>7. \A n : IsFiniteSet(Inserting(n)) /\ Cardinality(Inserting(n)) \in Nat
             /\ Cardinality(Inserting(n)) <= Cardinality(Request)
  BY <1>1, <1>2, <1>3
<1>8. \A e : IsFiniteSet(SeatsOf(e)) /\ Cardinality(SeatsOf(e)) \in Nat
  BY <1>1, <1>2, <1>4
<1>9. \A e : IsFiniteSet(Entering(e)) /\ Cardinality(Entering(e)) \in Nat
             /\ Cardinality(Entering(e)) <= Cardinality(Request)
  BY <1>1, <1>2, <1>4
<1> QED
  BY <1>5, <1>6, <1>7, <1>8, <1>9

\* Fewer handlers between test and write is fine.
LEMMA NameKept ==
  ASSUME SiteInv, NEW r \in Request, Avoids(r, {"insert"}), characters' = characters, store' = store
  PROVE  NameInv'
<1> SUFFICES ASSUME NEW n \in Name
             PROVE  /\ store' = "memory" => Inserting(n)' = {} /\ Cardinality(Holders(n)') <= 1
                    /\ Holders(n)' # {} =>
                         Cardinality(Holders(n)') + Cardinality(Inserting(n)') <= Cardinality(Request)
  BY DEF NameInv
<1>1. \A q \in Request : req'[q].pc = "insert" => req'[q] = req[q]
  BY IdlePc DEF Avoids, Others
<1>2. Inserting(n)' \in SUBSET Inserting(n)
  BY <1>1 DEF Inserting
<1>3. Holders(n)' = Holders(n)
  BY DEF Holders
<1>4. Cardinality(Inserting(n)') <= Cardinality(Inserting(n)) /\ Cardinality(Inserting(n)') \in Nat
  BY <1>2, Counted, FS_Subset, FS_CardinalityType
<1>5. /\ Cardinality(Holders(n)) \in Nat /\ Cardinality(Inserting(n)) \in Nat
      /\ Cardinality(Request) \in Nat
  BY Counted
<1>6. /\ store = "memory" => Inserting(n) = {} /\ Cardinality(Holders(n)) <= 1
      /\ Holders(n) # {} =>
           Cardinality(Holders(n)) + Cardinality(Inserting(n)) <= Cardinality(Request)
  BY DEF SiteInv, NameInv
<1>7. store' = "memory" => Inserting(n)' = {} /\ Cardinality(Holders(n)') <= 1
  BY <1>2, <1>3, <1>6
<1>8. Holders(n)' # {} =>
        Cardinality(Holders(n)') + Cardinality(Inserting(n)') <= Cardinality(Request)
  BY <1>3, <1>4, <1>5, <1>6
<1> QED
  BY <1>7, <1>8

LEMMA EventKept ==
  ASSUME EventInv, NEW r \in InFlight, Avoids(r, {"insert organizer"}), events' = events,
         todo' \subseteq todo,
         req'[r] # Idle => req[r].pc # "insert organizer",
         req'[r].pc \in {"pick", "insert seat", "insert staff"} => Exists(req[r].op.event)
  PROVE  EventInv'
<1>1. \A e : Exists(e)' <=> Exists(e)
  BY DEF Exists
<1>2. \A op \in todo' : op.kind = "create" => ~Exists(op.event)'
  BY <1>1 DEF EventInv
<1>3. ASSUME NEW q \in InFlight', req'[q].op.kind = "create"
      PROVE  IF req'[q].pc = "insert organizer"
             THEN events'[req'[q].op.event] = [organizer |-> req'[q].account, cap |-> req'[q].op.cap]
             ELSE ~Exists(req[q].op.event)'
  <2>1. q \in InFlight /\ req'[q].op = req[q].op
    BY <1>3 DEF InFlight, Avoids, Others
  <2>2. req'[q] = req[q] \/ (q = r /\ req'[q].pc # "insert organizer" /\ req[q].pc # "insert organizer")
    BY <1>3 DEF InFlight, Avoids, Others
  <2>3. IF req[q].pc = "insert organizer"
        THEN events[req[q].op.event] = [organizer |-> req[q].account, cap |-> req[q].op.cap]
        ELSE ~Exists(req[q].op.event)
    BY <1>3, <2>1 DEF EventInv
  <2>4. CASE req'[q] = req[q]
    BY <2>3, <2>4 DEF Exists
  <2>5. CASE req'[q].pc # "insert organizer" /\ req[q].pc # "insert organizer"
    BY <2>1, <2>3, <2>5 DEF Exists
  <2> QED
    BY <2>2, <2>4, <2>5
<1>4. ASSUME NEW q \in Request, req'[q].pc \in {"pick", "insert seat", "insert staff"}
      PROVE  Exists(req[q].op.event)'
  <2>1. CASE q = r
    <3>1. req'[r].op = req[r].op
      BY <1>4, <2>1, IdlePc DEF Avoids
    <3> QED
      BY <1>4, <2>1, <3>1 DEF Exists
  <2>2. CASE q # r
    <3>1. req'[q] = req[q]
      BY <2>2 DEF Avoids, Others
    <3>2. Exists(req[q].op.event)
      BY <1>4, <3>1 DEF EventInv
    <3> QED
      BY <3>1, <3>2 DEF Exists
  <2> QED
    BY <2>1, <2>2
<1> QED
  BY <1>2, <1>3, <1>4 DEF EventInv

\* Events and characters stay.
LEMMA SeatKept ==
  ASSUME SeatInv, NEW r \in Request, Others(r), seats' = seats, characters \subseteq characters',
         \A e : Exists(e) => Exists(e)',
         req'[r].pc = "insert seat" => Owns(req'[r].account, req'[r].char)
  PROVE  SeatInv'
<1>1. \A a, c : Owns(a, c) => Owns(a, c)'
  BY DEF Owns
<1>2. \A s \in seats' : Exists(s.event)' /\ Owns(s.account, s.char)'
  BY <1>1 DEF SeatInv
<1>3. ASSUME NEW q \in Request, req'[q].pc = "insert seat"
      PROVE  Owns(req[q].account, req[q].char)'
  <2>1. CASE q = r
    BY <1>3, <2>1 DEF Owns
  <2>2. CASE q # r
    <3>1. Owns(req[q].account, req[q].char) /\ req'[q] = req[q]
      BY <1>3, <2>2 DEF Others, SeatInv
    <3> QED
      BY <3>1 DEF Owns
  <2> QED
    BY <2>1, <2>2
<1> QED
  BY <1>2, <1>3 DEF SeatInv

LEMMA CapKept ==
  ASSUME SiteInv, NEW r \in Request, events' = events, seats' = seats,
         \A e \in Event : Entering(e)' \subseteq Entering(e)
  PROVE  CapInv'
<1> SUFFICES ASSUME NEW e \in Event, Exists(e)'
             PROVE  Cardinality(SeatsOf(e)') + Cardinality(Entering(e)')
                      <= events'[e].cap + Cardinality(Request) - 1
  BY DEF CapInv
<1>1. Exists(e) /\ SeatsOf(e)' = SeatsOf(e) /\ events'[e].cap = events[e].cap
  BY DEF Exists, SeatsOf
<1>2. Cardinality(SeatsOf(e)) + Cardinality(Entering(e)) <= events[e].cap + Cardinality(Request) - 1
  BY <1>1 DEF SiteInv, CapInv
<1>3. Entering(e)' \in SUBSET Entering(e)
  OBVIOUS
<1>4. Cardinality(Entering(e)') <= Cardinality(Entering(e)) /\ Cardinality(Entering(e)') \in Nat
  BY <1>3, Counted, FS_Subset, FS_CardinalityType
<1>5. /\ Cardinality(SeatsOf(e)) \in Nat /\ Cardinality(Entering(e)) \in Nat
      /\ Cardinality(Request) \in Nat
  BY Counted
<1>6. events[e].cap \in Nat
  BY DEF SiteInv, SiteTypeOK, BoardTypeOK
<1> QED
  BY <1>1, <1>2, <1>4, <1>5, <1>6

LEMMA AvoidsEntering ==
  ASSUME NEW r \in Request, Avoids(r, {"pick", "insert seat"})
  PROVE  \A e : Entering(e)' \subseteq Entering(e)
<1>1. \A q \in Request : req'[q].pc \in {"pick", "insert seat"} => req'[q] = req[q]
  BY IdlePc DEF Avoids, Others
<1> QED
  BY <1>1 DEF Entering

LEMMA AnsweredKept ==
  ASSUME AnsweredSeat, seats' = seats, SeatsTold
  PROVE  AnsweredSeat'
<1>1. \A e : SeatsOf(e)' = SeatsOf(e)
  BY DEF SeatsOf
<1>2. \A e, a : Registered(e, a)' <=> Registered(e, a)
  BY <1>1 DEF Registered
<1>3. \A x \in answers' :
        x.outcome \in {"ok", "duplicate", "registered"} => Registered(x.op.event, x.account)
  BY DEF AnsweredSeat, SeatsTold
<1> QED
  BY <1>1, <1>2, <1>3 DEF AnsweredSeat

\* Nobody begins or ends the second insert of an event.
LEMMA StaffKept ==
  ASSUME StaffInv, events' = events, staff \subseteq staff', Due \subseteq Due',
         cut \subseteq cut', NoneCreated
  PROVE  StaffInv'
<1>1. \A e : Exists(e)' <=> Exists(e)
  BY DEF Exists
<1>2. Unstaffed' \subseteq Unstaffed
  BY <1>1 DEF Unstaffed
<1>3. Unstaffed' \subseteq Due' \cup cut'
  BY <1>2 DEF StaffInv, OrganizerIsStaff
<1>4. \A x \in answers' : x.op.kind = "create" /\ x.outcome = "created" =>
        Exists(x.op.event)' /\ x.op.event \notin Unstaffed'
  BY <1>1, <1>2 DEF StaffInv, OrganizerIsStaff, NoneCreated
<1> QED
  BY <1>3, <1>4 DEF StaffInv, OrganizerIsStaff

LEMMA DueKept ==
  ASSUME NEW r \in Request, Others(r), req[r].pc # "insert organizer"
  PROVE  Due \subseteq Due'
<1>1. \A q \in Request : req[q].pc = "insert organizer" => req'[q] = req[q]
  BY DEF Others
<1> QED
  BY <1>1 DEF Due

\* A step that writes none of the tables and begins no test.
LEMMA TablesKept ==
  ASSUME SiteInv, NEW r \in Request, req[r].pc \notin {"idle", "insert organizer"},
         Avoids(r, {"insert", "insert organizer", "pick", "insert seat", "insert staff"}),
         UNCHANGED <<store, characters, boardVars>>, todo' \subseteq todo,
         UNCHANGED cut, Truthful
  PROVE  Numbered' /\ NameInv' /\ EventInv' /\ SeatInv' /\ CapInv' /\ AnsweredSeat' /\ StaffInv'
<1>1. /\ Avoids(r, {"insert"}) /\ Avoids(r, {"insert organizer"}) /\ Avoids(r, {"pick", "insert seat"})
      /\ Others(r)
      /\ req'[r].pc \notin {"insert", "insert organizer", "pick", "insert seat", "insert staff"}
  BY IdlePc DEF Avoids
<1>2. r \in InFlight
  BY Here DEF SiteInv
<1>3. UNCHANGED <<store, characters, events, seats, staff>>
  BY DEF boardVars
<1>4. \A e : Exists(e) => Exists(e)'
  BY <1>3 DEF Exists
<1>5. cut \subseteq cut'
  OBVIOUS
<1>6. Numbered /\ EventInv /\ SeatInv /\ AnsweredSeat /\ StaffInv
  BY DEF SiteInv
<1>7. Numbered'
  BY <1>3, <1>6, NumberedKept
<1>8. NameInv'
  BY <1>1, <1>3, NameKept
<1>9. EventInv'
  BY <1>1, <1>2, <1>3, <1>6, EventKept
<1>10. SeatInv'
  BY <1>1, <1>3, <1>4, <1>6, SeatKept
<1>11. CapInv'
  BY <1>1, <1>3, AvoidsEntering, CapKept
<1>12. AnsweredSeat'
  BY <1>3, <1>6, AnsweredKept DEF Truthful
<1>13. StaffInv'
  BY <1>1, <1>3, <1>5, <1>6, DueKept, StaffKept DEF Truthful
<1> QED
  BY <1>7, <1>8, <1>9, <1>10, <1>11, <1>12, <1>13

-----------------------------------------------------------------------------
(***************************************************************************)
(* Requests arrive and sign in; time passes and tokens end.                *)
(***************************************************************************)

LEMMA RejectionsTruthful ==
  ASSUME NEW r, NEW outcomes, Told(r, outcomes),
         outcomes \cap {"ok", "duplicate", "registered", "created"} = {}
  PROVE  Truthful
BY DEF Told, Truthful, SeatsTold, NoneCreated

LEMMA SilentTruthful ==
  ASSUME Silent
  PROVE  Truthful
BY DEF Silent, Truthful, SeatsTold, NoneCreated

LEMMA SignInRequests ==
  ASSUME SiteInv, NEW r \in Request, SignInStep(r)
  PROVE  /\ Avoids(r, {"insert", "insert organizer", "pick", "insert seat", "insert staff"})
         /\ answers' \subseteq Answer /\ Truthful
         /\ \/ req'[r] = Idle /\ \E outcomes : Told(r, outcomes)
            \/ req'[r].op = req[r].op /\ Silent
<1>1. req[r] \in Busy /\ req[r].op \in Operation /\ answers \subseteq Answer
  BY DEF SignInStep, Busy, SiteInv, SiteTypeOK, AccTypeOK
<1>2. CASE Leaves(r) /\ Told(r, {"unauthorized"})
  <2>1. Truthful
    BY <1>2, RejectionsTruthful
  <2> QED
    BY <1>1, <1>2, <2>1 DEF Leaves, Avoids, Told
<1>3. CASE Continues(r) /\ Silent
  <2>1. Truthful /\ answers' \subseteq Answer
    BY <1>1, <1>3, SilentTruthful DEF Silent
  <2>2. req'[r].pc \notin {"insert", "insert organizer", "pick", "insert seat", "insert staff"}
    BY <1>3 DEF Continues, SignIn
  <2> QED
    BY <1>1, <1>3, <2>1, <2>2 DEF Continues, Avoids
<1>4. CASE Silent /\ \E a \in Slug \cup {NoSlug} : Enters(r, a)
  <2>1. Truthful /\ answers' \subseteq Answer
    BY <1>1, <1>4, SilentTruthful DEF Silent
  <2>2. PICK a \in Slug \cup {NoSlug} : Enters(r, a)
    BY <1>4
  <2>3. req'[r].pc \notin {"insert", "insert organizer", "pick", "insert seat", "insert staff"}
    BY <1>1, <2>2, RoutePc DEF Enters
  <2> QED
    BY <1>1, <1>4, <2>1, <2>2, <2>3 DEF Enters, Avoids
<1> QED
  BY <1>2, <1>3, <1>4 DEF SignInStep

LEMMA SignInTypes ==
  ASSUME SiteInv, NEW r \in Request, SignInStep(r)
  PROVE  SiteTypeOK'
<1>1. AccTypeOK /\ BoardTypeOK
  BY DEF SiteInv, SiteTypeOK
<1>2. BoardTypeOK'
  BY <1>1 DEF SignInStep, boardVars, BoardTypeOK
<1>3. req' \in [Request -> {Idle} \cup Busy] /\ answers' \subseteq Answer
  BY SignInRequests DEF Avoids
<1>4. req[r].pc # "idle" /\ SessionOf(r) \in Session /\ UserOf[SessionOf(r)] \in User
  <2>1. req[r].pc # "idle"
    BY DEF SignInStep, SignIn
  <2> QED
    BY <2>1, Here DEF SiteInv
<1>5. accounts' \in [User -> Slug \cup {NoSlug}]
  BY <1>1, <1>4 DEF SignInStep, Provisions, AccTypeOK
<1>6. cache' \in [Session -> [until: Nat, account: Slug \cup {NoSlug}]]
  BY <1>1, <1>4 DEF SignInStep, Caches, AccTypeOK
<1>7. UNCHANGED <<store, now, valid, signedOut, characters, todo>> /\ profiles' \subseteq Slug
      /\ UNCHANGED <<failures, cut>>
  BY DEF SignInStep
<1>8. AccTypeOK'
  BY <1>1, <1>3, <1>5, <1>6, <1>7 DEF AccTypeOK
<1> QED
  BY <1>2, <1>8 DEF SiteTypeOK

\* An account, once there, stays.
LEMMA ProvisionsOnce ==
  ASSUME SiteInv, NEW r \in Request, SignInStep(r), NEW u \in User, accounts[u] # NoSlug
  PROVE  accounts'[u] = accounts[u]
<1>1. accounts \in [User -> Slug \cup {NoSlug}]
  BY DEF SiteInv, SiteTypeOK, AccTypeOK
<1> QED
  BY <1>1 DEF SignInStep, Provisions, AccountOf

LEMMA SignInOneAccount ==
  ASSUME SiteInv, NEW r \in Request, SignInStep(r)
  PROVE  OneAccountPerUser'
<1>1. req[r].pc # "idle"
  BY DEF SignInStep, SignIn
<1>2. SessionOf(r) \in Session /\ UserOf[SessionOf(r)] \in User /\ r \in InFlight
  BY <1>1, Here DEF SiteInv
<1>3. \A s \in Session : UserOf[s] \in User
  BY Assumption
<1>4. cache \in [Session -> [until: Nat, account: Slug \cup {NoSlug}]]
  BY DEF SiteInv, SiteTypeOK, AccTypeOK
<1>5. ASSUME NEW s \in Session, cache'[s].account # NoSlug
      PROVE  cache'[s].account = accounts'[UserOf[s]]
  <2>1. CASE cache'[s] = cache[s]
    <3>1. cache[s].account = accounts[UserOf[s]]
      BY <1>5, <2>1 DEF SiteInv, OneAccountPerUser
    <3> QED
      BY <1>3, <1>5, <2>1, <3>1, ProvisionsOnce
  <2>2. CASE cache'[s] # cache[s]
    <3>1. PICK a \in Slug \cup {NoSlug}, t \in Nat :
            /\ cache' = [cache EXCEPT ![SessionOf(r)] = [until |-> t, account |-> a]]
            /\ a # NoSlug => a = accounts'[UserOf[SessionOf(r)]]
      BY <2>2 DEF SignInStep, Caches
    <3>2. s = SessionOf(r) /\ cache'[s].account = a
      BY <1>4, <2>2, <3>1
    <3> QED
      BY <1>5, <3>1, <3>2
  <2> QED
    BY <2>1, <2>2
<1>6. ASSUME NEW q \in Request, req'[q] # Idle, req'[q].account # NoSlug
      PROVE  req'[q].account = accounts'[UserOf[req'[q].op.session]]
  <2>1. CASE q # r \/ Continues(r)
    <3>1. req'[q].account = req[q].account /\ req'[q].op = req[q].op /\ req[q] # Idle
      <4>1. CASE q # r
        BY <1>6, <4>1, SignInRequests DEF Avoids, Others
      <4>2. CASE q = r
        BY <1>2, <2>1, <4>2 DEF Continues, InFlight
      <4> QED
        BY <4>1, <4>2
    <3>2. req[q].account = accounts[UserOf[SessionOf(q)]]
      BY <1>6, <3>1 DEF SiteInv, OneAccountPerUser
    <3>3. q \in Request /\ req[q].pc # "idle"
      BY <3>1, Flight DEF SiteInv, InFlight
    <3>4. UserOf[SessionOf(q)] \in User
      BY <3>3, Here DEF SiteInv
    <3> QED
      BY <1>6, <3>1, <3>2, <3>4, ProvisionsOnce DEF SessionOf
  <2>2. CASE q = r /\ ~Continues(r)
    <3>1. PICK a \in Slug \cup {NoSlug} :
            Enters(r, a) /\ (a # NoSlug => a = accounts'[UserOf[SessionOf(r)]])
      BY <1>6, <2>2 DEF SignInStep, Leaves
    <3> QED
      BY <1>6, <2>2, <3>1 DEF Enters, SessionOf
  <2> QED
    BY <2>1, <2>2
<1> QED
  BY <1>5, <1>6 DEF OneAccountPerUser, SessionOf

LEMMA SignInKnows ==
  ASSUME SiteInv, NEW r \in Request, SignInStep(r)
  PROVE  SignInInv'
<1>1. req[r].pc # "idle" /\ req[r].pc \in SignIn
  BY DEF SignInStep, SignIn
<1>2. r \in InFlight /\ req[r].op \in Operation /\ req[r].at \in Nat
  BY <1>1, Here DEF SiteInv
<1>3. UNCHANGED <<now, valid, signedOut>>
  BY DEF SignInStep
<1>4. now \in Nat
  BY Failures DEF SiteInv
<1> SUFFICES ASSUME NEW q \in InFlight'
             PROVE  /\ req'[q].pc \in SignIn \cup Steps[req'[q].op.kind]
                    /\ req'[q].pc \in SignIn \/ Optional(req'[q].op) \/ req'[q].account # NoSlug
                    /\ req'[q].pc \in {"profile", "account"} =>
                         req'[q].try \in 1 .. Len(Candidates[UserOf[req'[q].op.session]])
                    /\ req'[q].at <= now
                    /\ req'[q].pc \in Vouched =>
                         req'[q].op.session \in valid \/ req'[q].at <= signedOut[req'[q].op.session]
  BY <1>3 DEF SignInInv, SessionOf, Optional
<1>5. CASE q # r
  <2>1. req'[q] = req[q] /\ q \in InFlight
    BY <1>5, SignInRequests DEF Avoids, Others, InFlight
  <2> QED
    BY <2>1 DEF SiteInv, SignInInv, SessionOf
<1>6. req[r].at <= now
      /\ (req[r].pc \in Vouched => SessionOf(r) \in valid \/ req[r].at <= signedOut[SessionOf(r)])
  BY <1>2 DEF SiteInv, SignInInv
<1>7. CASE q = r /\ Continues(r)
  BY <1>2, <1>4, <1>6, <1>7 DEF Continues, SessionOf
<1>8. CASE q = r /\ \E a \in Slug \cup {NoSlug} : Enters(r, a) /\ (a # NoSlug \/ Optional(req[r].op))
  <2>1. req'[r].pc \notin SignIn /\ req'[r].pc \in Steps[req[r].op.kind] /\ req'[r].op = req[r].op
        /\ req'[r].at = req[r].at /\ (req'[r].account # NoSlug \/ Optional(req[r].op))
    BY <1>2, <1>8, RoutePc DEF Enters
  <2>2. {"profile", "account"} \subseteq SignIn /\ Vouched \subseteq SignIn
    BY DEF SignIn, Vouched
  <2> QED
    BY <1>6, <1>8, <2>1, <2>2
<1>9. ~Leaves(r) \/ q # r
  BY DEF Leaves, InFlight
<1> QED
  BY <1>5, <1>7, <1>8, <1>9 DEF SignInStep

LEMMA SignInCaches ==
  ASSUME SiteInv, NEW r \in Request, SignInStep(r)
  PROVE  CacheInv'
<1>1. req[r].pc # "idle"
  BY DEF SignInStep, SignIn
<1>2. r \in InFlight /\ SessionOf(r) \in Session /\ req[r].at \in Nat
  BY <1>1, Here DEF SiteInv
<1>3. UNCHANGED <<now, valid, signedOut>>
  BY DEF SignInStep
<1>4. cache \in [Session -> [until: Nat, account: Slug \cup {NoSlug}]]
      /\ signedOut \in [Session -> 0 .. MaxTime]
  BY DEF SiteInv, SiteTypeOK, AccTypeOK
<1>5. now \in Nat /\ MaxTime \in Nat
  BY Failures, Assumption DEF SiteInv
<1> SUFFICES ASSUME NEW s \in Session, cache'[s].account # NoSlug
             PROVE  cache'[s].until <= HitTtl + (IF s \in valid THEN now ELSE signedOut[s])
  BY <1>3 DEF CacheInv
<1>6. CASE cache'[s] = cache[s]
  BY <1>6 DEF SiteInv, CacheInv
<1>7. CASE cache'[s] # cache[s]
  <2>1. PICK a \in Slug \cup {NoSlug}, t \in Nat :
          /\ cache' = [cache EXCEPT ![SessionOf(r)] = [until |-> t, account |-> a]]
          /\ a # NoSlug => t <= req[r].at + HitTtl /\ req[r].pc \in Vouched
    BY <1>7 DEF SignInStep, Caches
  <2>2. s = SessionOf(r) /\ cache'[s].account = a /\ cache'[s].until = t
    BY <1>4, <1>7, <2>1
  <2>3. t <= req[r].at + HitTtl /\ req[r].pc \in Vouched
    BY <2>1, <2>2
  <2>4. req[r].at <= now /\ (s \in valid \/ req[r].at <= signedOut[s])
    BY <1>2, <2>2, <2>3 DEF SiteInv, SignInInv
  <2>5. signedOut[s] \in Nat
    BY <1>4, <1>5
  <2>6. t <= HitTtl + (IF s \in valid THEN now ELSE signedOut[s])
    BY <1>2, <1>5, <2>3, <2>4, <2>5 DEF HitTtl
  <2> QED
    BY <2>2, <2>6
<1> QED
  BY <1>6, <1>7

LEMMA SignInKeeps ==
  ASSUME SiteInv, NEW r \in Request, SignInStep(r)
  PROVE  SiteInv'
<1>1. req[r].pc \notin {"idle", "insert organizer"}
  BY DEF SignInStep, SignIn
<1>2. r \in InFlight
  BY <1>1, Here DEF SiteInv
<1>3. /\ Avoids(r, {"insert", "insert organizer", "pick", "insert seat", "insert staff"})
      /\ Truthful
      /\ \/ req'[r] = Idle /\ \E outcomes : Told(r, outcomes)
         \/ req'[r].op = req[r].op /\ Silent
  BY SignInRequests
<1>4. UNCHANGED <<store, characters, boardVars>> /\ todo' = todo
      /\ UNCHANGED <<failures, cut>>
  BY DEF SignInStep
<1>6. Numbered' /\ NameInv' /\ EventInv' /\ SeatInv' /\ CapInv' /\ AnsweredSeat' /\ StaffInv'
  BY <1>1, <1>3, <1>4, TablesKept
<1>7. SentOnce'
  BY <1>2, <1>3, <1>4, SentOnceKept DEF SiteInv, Avoids
<1> QED
  BY <1>6, <1>7, SignInTypes, SignInOneAccount, SignInKnows, SignInCaches DEF SiteInv

LEMMA ArriveKeeps ==
  ASSUME SiteInv, NEW r \in Request, Arrive(r), UNCHANGED boardVars
  PROVE  SiteInv'
<1>1. SiteTypeOK /\ OneAccountPerUser /\ SignInInv /\ CacheInv /\ SentOnce
  BY DEF SiteInv
<1>2. req[r] = Idle
      /\ UNCHANGED <<store, now, valid, signedOut, cache, profiles, accounts, characters,
                     answers, failures, cut>>
      /\ UNCHANGED <<events, seats, staff>>
  BY DEF Arrive, boardVars
<1>3. PICK op \in todo :
        /\ todo' = todo \ {op}
        /\ req' = [req EXCEPT ![r] = [pc |-> "auth", op |-> op, account |-> NoSlug,
                                      at |-> 0, try |-> 0, char |-> 0]]
  BY DEF Arrive
<1> DEFINE x == [pc |-> "auth", op |-> op, account |-> NoSlug, at |-> 0, try |-> 0, char |-> 0]
<1>4. op \in Operation /\ todo' \subseteq Operation
  BY <1>1, <1>3 DEF SiteTypeOK, AccTypeOK
<1>5. x \in Busy /\ x.pc = "auth" /\ x.op = op /\ x.account = NoSlug /\ x.at = 0 /\ x # Idle
  BY <1>4 DEF Busy, SignIn, Idle
<1>6. req' = [req EXCEPT ![r] = x]
  BY <1>3
<1> HIDE DEF x
<1>7. req' \in [Request -> {Idle} \cup Busy] /\ req'[r] = x /\ Others(r)
  BY <1>1, <1>5, <1>6, Becomes
<1>8. InFlight' = InFlight \cup {r} /\ r \notin InFlight
  BY <1>2, <1>5, <1>7 DEF InFlight, Others
<1>9. \A q \in InFlight : q \in Request /\ q # r /\ req'[q] = req[q]
  BY <1>7, <1>8 DEF Others, InFlight
<1>10. SiteTypeOK'
  <2>1. AccTypeOK'
    BY <1>1, <1>2, <1>4, <1>7 DEF SiteTypeOK, AccTypeOK
  <2>2. BoardTypeOK'
    BY <1>1, <1>2 DEF SiteTypeOK, BoardTypeOK
  <2> QED
    BY <2>1, <2>2 DEF SiteTypeOK
<1>11. OneAccountPerUser'
  <2>1. \A s \in Session : cache'[s].account # NoSlug => cache'[s].account = accounts'[UserOf[s]]
    BY <1>1, <1>2 DEF OneAccountPerUser
  <2>2. ASSUME NEW q \in Request, req'[q] # Idle, req'[q].account # NoSlug
        PROVE  req'[q].account = accounts'[UserOf[req'[q].op.session]]
    <3>1. q # r /\ req'[q] = req[q]
      BY <1>5, <1>7, <2>2 DEF Others
    <3> QED
      BY <1>1, <1>2, <2>2, <3>1 DEF OneAccountPerUser, SessionOf
  <2> QED
    BY <2>1, <2>2 DEF OneAccountPerUser, SessionOf
<1>12. SignInInv'
  <2>1. now \in Nat
    BY <1>1, Failures
  <2> SUFFICES ASSUME NEW q \in InFlight'
               PROVE  /\ req'[q].pc \in SignIn \cup Steps[req'[q].op.kind]
                      /\ req'[q].pc \in SignIn \/ Optional(req'[q].op) \/ req'[q].account # NoSlug
                      /\ req'[q].pc \in {"profile", "account"} =>
                           req'[q].try \in 1 .. Len(Candidates[UserOf[req'[q].op.session]])
                      /\ req'[q].at <= now
                      /\ req'[q].pc \in Vouched =>
                           req'[q].op.session \in valid
                             \/ req'[q].at <= signedOut[req'[q].op.session]
    BY <1>2 DEF SignInInv, SessionOf, Optional
  <2>2. CASE q = r
    BY <1>5, <1>7, <2>1, <2>2 DEF SignIn, Vouched
  <2>3. CASE q # r
    <3>1. q \in InFlight /\ req'[q] = req[q]
      BY <1>8, <1>9, <2>3
    <3> QED
      BY <1>1, <3>1 DEF SignInInv, SessionOf
  <2> QED
    BY <2>2, <2>3
<1>13. CacheInv'
  BY <1>1, <1>2 DEF CacheInv
<1>14. SentOnce'
  <2>1. \A q \in InFlight : req[q].op # op
    BY <1>1, <1>3 DEF SentOnce
  <2>2. \A q, p \in InFlight : req[q].op = req[p].op => q = p
    BY <1>1 DEF SentOnce
  <2>3. \A q, p \in InFlight' : req'[q].op = req'[p].op => q = p
    BY <1>5, <1>7, <1>8, <1>9, <2>1, <2>2
  <2>4. \A q \in InFlight' : req'[q].op \notin todo'
    BY <1>1, <1>3, <1>5, <1>7, <1>8, <1>9 DEF SentOnce
  <2>5. \A y \in answers' : y.op \notin todo' /\ \A q \in InFlight' : y.op # req'[q].op
    BY <1>1, <1>2, <1>3, <1>5, <1>7, <1>8, <1>9 DEF SentOnce
  <2> QED
    BY <2>3, <2>4, <2>5 DEF SentOnce
<1>15. \A q \in Request : req'[q].pc \notin {"idle", "auth"} => q # r /\ req'[q] = req[q]
  BY <1>5, <1>7 DEF Others
<1>16. \A q \in Request : req[q].pc \notin {"idle", "auth"} => q # r /\ req'[q] = req[q]
  BY <1>2, <1>7, IdlePc DEF Others
<1>17. (\A n : Inserting(n)' = Inserting(n)) /\ (\A e : Entering(e)' = Entering(e)) /\ Due' = Due
  BY <1>15, <1>16 DEF Inserting, Entering, Due
<1>18. (\A n : Holders(n)' = Holders(n)) /\ (\A e : SeatsOf(e)' = SeatsOf(e))
       /\ (\A e : Exists(e)' <=> Exists(e)) /\ (\A a, c : Owns(a, c)' <=> Owns(a, c))
       /\ Unstaffed' = Unstaffed
  BY <1>2 DEF Holders, SeatsOf, Exists, Owns, Unstaffed
<1>19. Numbered'
  BY <1>2, NumberedKept DEF SiteInv
<1>20. NameInv'
  BY <1>2, <1>17, <1>18 DEF SiteInv, NameInv
<1>21. CapInv'
  BY <1>2, <1>17, <1>18 DEF SiteInv, CapInv
<1>22. StaffInv'
  BY <1>2, <1>17, <1>18 DEF SiteInv, StaffInv, OrganizerIsStaff
<1>23. AnsweredSeat'
  BY <1>2, SilentTruthful, AnsweredKept DEF SiteInv, Truthful, Silent
<1>24. SeatInv'
  <2>1. req'[r].pc # "insert seat"
    BY <1>5, <1>7
  <2> QED
    BY <1>2, <1>7, <1>18, <2>1, SeatKept DEF SiteInv
<1>25. EventInv'
  <2>1. \A p \in todo' : p.kind = "create" => ~Exists(p.event)'
    BY <1>3, <1>18 DEF SiteInv, EventInv
  <2>2. ASSUME NEW q \in InFlight', req'[q].op.kind = "create"
        PROVE  IF req'[q].pc = "insert organizer"
               THEN events'[req'[q].op.event]
                      = [organizer |-> req'[q].account, cap |-> req'[q].op.cap]
               ELSE ~Exists(req[q].op.event)'
    <3>1. CASE q = r
      <4>1. ~Exists(op.event)'
        BY <1>3, <1>5, <1>7, <1>18, <2>2, <3>1 DEF SiteInv, EventInv
      <4>2. req'[q].op = op /\ req'[q].pc # "insert organizer"
        BY <1>5, <1>7, <3>1
      <4> QED
        BY <4>1, <4>2 DEF Exists
    <3>2. CASE q # r
      <4>1. q \in InFlight /\ req'[q] = req[q]
        BY <1>8, <1>9, <3>2
      <4>2. IF req[q].pc = "insert organizer"
            THEN events[req[q].op.event] = [organizer |-> req[q].account, cap |-> req[q].op.cap]
            ELSE ~Exists(req[q].op.event)
        BY <2>2, <4>1 DEF SiteInv, EventInv
      <4> QED
        BY <1>2, <4>1, <4>2 DEF Exists
    <3> QED
      BY <3>1, <3>2
  <2>3. ASSUME NEW q \in Request, req'[q].pc \in {"pick", "insert seat", "insert staff"}
        PROVE  Exists(req[q].op.event)'
    <3>1. req'[q] = req[q]
      BY <1>15, <2>3
    <3>2. Exists(req[q].op.event)
      BY <2>3, <3>1 DEF SiteInv, EventInv
    <3> QED
      BY <1>2, <3>1, <3>2 DEF Exists
  <2> QED
    BY <2>1, <2>2, <2>3 DEF EventInv
<1> QED
  BY <1>10, <1>11, <1>12, <1>13, <1>14, <1>19, <1>20, <1>21, <1>22, <1>23, <1>24, <1>25 DEF SiteInv

\* What is about requests and tables does not depend on the clock and the tokens.
LEMMA ClockKeeps ==
  ASSUME SiteInv, UNCHANGED <<store, cache, accounts, characters, todo, req, answers, failures,
                              cut>>, UNCHANGED boardVars
  PROVE  /\ OneAccountPerUser' /\ SentOnce' /\ Numbered' /\ NameInv'
         /\ EventInv' /\ SeatInv' /\ CapInv' /\ AnsweredSeat' /\ StaffInv'
<1>1. UNCHANGED <<events, seats, staff>>
  BY DEF boardVars
<1>2. OneAccountPerUser'
  BY DEF SiteInv, OneAccountPerUser, SessionOf
<1>3. SentOnce' /\ Numbered'
  BY DEF SiteInv, SentOnce, InFlight, Numbered
<1>4. NameInv'
  BY DEF SiteInv, NameInv, Holders, Inserting
<1>5. EventInv'
  BY <1>1 DEF SiteInv, EventInv, Exists, InFlight
<1>6. SeatInv'
  BY <1>1 DEF SiteInv, SeatInv, Exists, Owns
<1>7. CapInv'
  BY <1>1 DEF SiteInv, CapInv, Exists, SeatsOf, Entering
<1>8. AnsweredSeat'
  BY <1>1 DEF SiteInv, AnsweredSeat, SeatsOf, Registered
<1>9. StaffInv'
  BY <1>1 DEF SiteInv, StaffInv, OrganizerIsStaff, Unstaffed, Due, Exists
<1> QED
  BY <1>2, <1>3, <1>4, <1>5, <1>6, <1>7, <1>8, <1>9

LEMMA TickKeeps ==
  ASSUME SiteInv, Tick, UNCHANGED boardVars
  PROVE  SiteInv'
<1>1. now < MaxTime /\ now' = now + 1
      /\ UNCHANGED <<store, valid, signedOut, cache, profiles, accounts, characters,
                     todo, req, answers, failures, cut>>
      /\ UNCHANGED <<events, seats, staff>>
  BY DEF Tick, boardVars
<1>2. now \in Nat /\ MaxTime \in Nat
  BY Failures, Assumption DEF SiteInv
<1>3. SiteTypeOK'
  BY <1>1, <1>2 DEF SiteInv, SiteTypeOK, AccTypeOK, BoardTypeOK
<1>4. SignInInv'
  <2>1. \A q \in InFlight : req[q].at \in Nat
    BY Flight, Here DEF SiteInv
  <2>2. \A q \in InFlight : req[q].at <= now + 1
    BY <1>2, <2>1 DEF SiteInv, SignInInv
  <2>3. InFlight' = InFlight /\ \A q : SessionOf(q)' = SessionOf(q)
    BY <1>1 DEF InFlight, SessionOf
  <2> QED
    BY <1>1, <2>2, <2>3 DEF SiteInv, SignInInv, Optional
<1>5. CacheInv'
  <2>1. cache \in [Session -> [until: Nat, account: Slug \cup {NoSlug}]]
    BY DEF SiteInv, SiteTypeOK, AccTypeOK
  <2> SUFFICES ASSUME NEW s \in Session, cache[s].account # NoSlug
               PROVE  cache[s].until <= HitTtl + (IF s \in valid THEN now + 1 ELSE signedOut[s])
    BY <1>1 DEF CacheInv
  <2>2. cache[s].until <= HitTtl + (IF s \in valid THEN now ELSE signedOut[s])
    BY DEF SiteInv, CacheInv
  <2>3. cache[s].until \in Nat
    BY <2>1
  <2> QED
    BY <1>2, <2>2, <2>3 DEF HitTtl
<1> QED
  BY <1>1, <1>3, <1>4, <1>5, ClockKeeps DEF SiteInv

LEMMA SignOutKeeps ==
  ASSUME SiteInv, NEW s \in Session, SignOut(s), UNCHANGED boardVars
  PROVE  SiteInv'
<1>1. s \in valid /\ valid' = valid \ {s} /\ signedOut' = [signedOut EXCEPT ![s] = now]
      /\ UNCHANGED <<store, now, cache, profiles, accounts, characters, todo, req,
                     answers, failures, cut>>
      /\ UNCHANGED <<events, seats, staff>>
  BY DEF SignOut, boardVars
<1>2. now \in Nat /\ now \in 0 .. MaxTime
  BY Failures DEF SiteInv
<1>3. signedOut \in [Session -> 0 .. MaxTime]
  BY DEF SiteInv, SiteTypeOK, AccTypeOK
<1>4. SiteTypeOK'
  BY <1>1, <1>2 DEF SiteInv, SiteTypeOK, AccTypeOK, BoardTypeOK
<1>5. \A t \in Session : signedOut'[t] = IF t = s THEN now ELSE signedOut[t]
  BY <1>1, <1>3
<1>6. SignInInv'
  <2>1. InFlight' = InFlight /\ \A q : SessionOf(q)' = SessionOf(q)
    BY <1>1 DEF InFlight, SessionOf
  <2>2. ASSUME NEW q \in InFlight, req[q].pc \in Vouched
        PROVE  SessionOf(q) \in valid' \/ req[q].at <= signedOut'[SessionOf(q)]
    <3>1. SessionOf(q) \in Session
      BY Flight, Here DEF SiteInv
    <3>2. req[q].at <= now
          /\ (SessionOf(q) \in valid \/ req[q].at <= signedOut[SessionOf(q)])
      BY <2>2 DEF SiteInv, SignInInv
    <3> QED
      BY <1>1, <1>5, <3>1, <3>2
  <2> QED
    BY <1>1, <2>1, <2>2 DEF SiteInv, SignInInv, Optional
<1>7. CacheInv'
  <2> SUFFICES ASSUME NEW t \in Session, cache[t].account # NoSlug
               PROVE  cache[t].until <= HitTtl + (IF t \in valid' THEN now ELSE signedOut'[t])
    BY <1>1 DEF CacheInv
  <2>1. cache[t].until <= HitTtl + (IF t \in valid THEN now ELSE signedOut[t])
    BY DEF SiteInv, CacheInv
  <2> QED
    BY <1>1, <1>5, <2>1
<1> QED
  BY <1>1, <1>4, <1>6, <1>7, ClockKeeps DEF SiteInv

-----------------------------------------------------------------------------
(***************************************************************************)
(* Routes.                                                                 *)
(***************************************************************************)

\* A step of a request that has its account.
RouteStep(r) ==
  /\ req[r] \in Busy /\ req[r].pc \notin SignIn
  /\ \/ Leaves(r) /\ Told(r, Outcome)
     \/ Silent /\ \E pc \in Steps[req[r].op.kind] : Goes(r, pc)
  /\ UNCHANGED <<store, now, valid, signedOut, cache, profiles, accounts, todo>>

LEMMA RouteRequests ==
  ASSUME SiteInv, NEW r \in Request, RouteStep(r)
  PROVE  /\ OneAccountPerUser' /\ SignInInv' /\ CacheInv' /\ SentOnce'
         /\ req' \in [Request -> {Idle} \cup Busy] /\ answers' \subseteq Answer /\ Others(r)
         /\ req'[r] = Idle \/ (req'[r] \in Busy /\ req'[r].op = req[r].op
                                 /\ req'[r].account = req[r].account)
<1>1. req[r] \in Busy /\ UNCHANGED <<store, now, valid, signedOut, cache, profiles, accounts, todo>>
  BY DEF RouteStep
<1>2. req[r] # Idle
  <2>1. Idle.pc = "idle" /\ "idle" \notin SignIn \cup OnRoute
    BY DEF Idle, SignIn, OnRoute
  <2> QED
    BY <1>1, <2>1 DEF Busy
<1>3. r \in InFlight
  BY <1>2 DEF InFlight
<1>4. /\ req' \in [Request -> {Idle} \cup Busy] /\ answers' \subseteq Answer /\ Others(r)
      /\ req'[r] = Idle \/ (req'[r] \in Busy /\ req'[r].op = req[r].op
                              /\ req'[r].account = req[r].account)
  <2>1. answers \subseteq Answer
    BY DEF SiteInv, SiteTypeOK, AccTypeOK
  <2> QED
    BY <2>1 DEF RouteStep, Leaves, Goes, Told, Silent
<1>5. \A q \in InFlight' : q \in InFlight /\ req'[q].op = req[q].op
                             /\ req'[q].account = req[q].account
  BY <1>3, <1>4 DEF InFlight, Others
<1>6. OneAccountPerUser'
  <2>1. \A s \in Session : cache'[s].account # NoSlug => cache'[s].account = accounts'[UserOf[s]]
    BY <1>1 DEF SiteInv, OneAccountPerUser
  <2>2. ASSUME NEW q \in Request, req'[q] # Idle, req'[q].account # NoSlug
        PROVE  req'[q].account = accounts'[UserOf[req'[q].op.session]]
    <3>1. q \in InFlight /\ req'[q].op = req[q].op /\ req'[q].account = req[q].account
      BY <1>5, <2>2 DEF InFlight
    <3> QED
      BY <1>1, <2>2, <3>1 DEF SiteInv, OneAccountPerUser, SessionOf, InFlight
  <2> QED
    BY <2>1, <2>2 DEF OneAccountPerUser, SessionOf
<1>7. SignInInv'
  <2> SUFFICES ASSUME NEW q \in InFlight'
               PROVE  /\ req'[q].pc \in SignIn \cup Steps[req'[q].op.kind]
                      /\ req'[q].pc \in SignIn \/ Optional(req'[q].op) \/ req'[q].account # NoSlug
                      /\ req'[q].pc \in {"profile", "account"} =>
                           req'[q].try \in 1 .. Len(Candidates[UserOf[req'[q].op.session]])
                      /\ req'[q].at <= now
                      /\ req'[q].pc \in Vouched =>
                           req'[q].op.session \in valid
                             \/ req'[q].at <= signedOut[req'[q].op.session]
    BY <1>1 DEF SignInInv, SessionOf, Optional
  <2>1. q \in InFlight
    BY <1>5
  <2>2. CASE q # r
    <3>1. req'[q] = req[q] /\ q \in Request
      BY <1>4, <2>1, <2>2 DEF Others, InFlight
    <3> QED
      BY <2>1, <3>1 DEF SiteInv, SignInInv, SessionOf
  <2>3. CASE q = r
    <3>1. PICK pc \in Steps[req[r].op.kind] : Goes(r, pc)
      BY <2>3 DEF RouteStep, Leaves, InFlight
    <3>2. req[r].at <= now /\ (Optional(req[r].op) \/ req[r].account # NoSlug)
      BY <1>1, <1>3 DEF SiteInv, SignInInv, RouteStep
    <3>3. pc \notin {"profile", "account"} /\ pc \notin Vouched
      <4>1. req[r].op.kind \in {"me", "character", "create", "signup", "staff", "list"}
        BY <1>1, Fields DEF Busy
      <4>2. \A k \in {"me", "character", "create", "signup", "staff", "list"} :
              Steps[k] \subseteq OnRoute
        <5>1. /\ Steps["me"] \subseteq OnRoute /\ Steps["character"] \subseteq OnRoute
              /\ Steps["create"] \subseteq OnRoute /\ Steps["signup"] \subseteq OnRoute
              /\ Steps["staff"] \subseteq OnRoute /\ Steps["list"] \subseteq OnRoute
          BY DEF Steps, OnRoute
        <5> QED
          BY <5>1
      <4>3. \A p \in OnRoute : p \notin {"profile", "account"} /\ p \notin Vouched
        BY DEF OnRoute, Vouched
      <4> QED
        BY <4>1, <4>2, <4>3
    <3> QED
      BY <2>3, <3>1, <3>2, <3>3 DEF Goes
  <2> QED
    BY <2>2, <2>3
<1>8. CacheInv'
  BY <1>1 DEF SiteInv, CacheInv
<1>9. SentOnce'
  <2>1. \/ req'[r] = Idle /\ \E outcomes : Told(r, outcomes)
        \/ req'[r].op = req[r].op /\ Silent
    BY DEF RouteStep, Leaves, Goes
  <2> QED
    BY <1>1, <1>3, <1>4, <2>1, SentOnceKept DEF SiteInv
<1> QED
  BY <1>4, <1>6, <1>7, <1>8, <1>9

\* A route that writes no table.
LEMMA QuietRoute ==
  ASSUME SiteInv, NEW r \in Request, RouteStep(r), req[r].pc # "insert organizer",
         UNCHANGED characters, UNCHANGED boardVars,
         UNCHANGED <<failures, cut>>, Truthful,
         req'[r].pc \notin {"insert", "insert organizer", "pick", "insert seat", "insert staff"}
  PROVE  SiteInv'
<1>1. /\ OneAccountPerUser' /\ SignInInv' /\ CacheInv' /\ SentOnce'
      /\ req' \in [Request -> {Idle} \cup Busy] /\ answers' \subseteq Answer /\ Others(r)
      /\ req'[r] = Idle \/ (req'[r] \in Busy /\ req'[r].op = req[r].op)
  BY RouteRequests
<1>2. UNCHANGED <<store, now, valid, signedOut, cache, profiles, accounts, todo>>
      /\ req[r] \in Busy
  BY DEF RouteStep
<1>3. UNCHANGED <<events, seats, staff>>
  BY DEF boardVars
<1>4. SiteTypeOK'
  <2>1. AccTypeOK'
    BY <1>1, <1>2 DEF SiteInv, SiteTypeOK, AccTypeOK
  <2>2. BoardTypeOK'
    BY <1>3 DEF SiteInv, SiteTypeOK, BoardTypeOK
  <2> QED
    BY <2>1, <2>2 DEF SiteTypeOK
<1>5. Avoids(r, {"insert", "insert organizer", "pick", "insert seat", "insert staff"})
  BY <1>1, <1>2 DEF Avoids
<1>7. req[r].pc # "idle"
  BY <1>2 DEF Busy, SignIn, OnRoute
<1>8. Numbered' /\ NameInv' /\ EventInv' /\ SeatInv' /\ CapInv' /\ AnsweredSeat' /\ StaffInv'
  BY <1>2, <1>5, <1>7, TablesKept
<1> QED
  BY <1>1, <1>4, <1>8 DEF SiteInv

\* A request whose step answers it.
LEMMA AnswerRoutes ==
  ASSUME SiteTypeOK, NEW r \in Request, req[r].pc \notin SignIn \cup {"idle"},
         NEW o \in Outcome, Respond(r, o),
         UNCHANGED <<store, now, valid, signedOut, cache, profiles, accounts, todo>>
  PROVE  /\ RouteStep(r) /\ Leaves(r) /\ Told(r, {o})
         /\ req'[r].pc \notin {"insert", "insert organizer", "pick", "insert seat", "insert staff"}
<1>1. req[r] \in Busy
  BY Here
<1>2. Leaves(r) /\ Told(r, {o})
  BY <1>1, RespondShape
<1>3. Told(r, Outcome)
  BY <1>2 DEF Told
<1> QED
  BY <1>1, <1>2, <1>3, IdlePc DEF RouteStep, Leaves

\* A request that goes on to the next step of its route.
LEMMA GotoRoutes ==
  ASSUME SiteTypeOK, NEW r \in Request, req[r].pc \notin SignIn \cup {"idle"},
         NEW pc \in Steps[req[r].op.kind], pc \in OnRoute, Goto(r, pc), Silent,
         UNCHANGED <<store, now, valid, signedOut, cache, profiles, accounts, todo>>
  PROVE  RouteStep(r) /\ Goes(r, pc)
<1>1. req[r] \in Busy
  BY Here
<1>2. Goes(r, pc)
  BY <1>1, GotoShape
<1> QED
  BY <1>1, <1>2 DEF RouteStep

\* A step that refuses, or tells what is there.
LEMMA RefuseKeeps ==
  ASSUME SiteInv, NEW r \in Request, req[r].pc \notin SignIn \cup {"idle", "insert organizer"},
         NEW o \in Outcome \ {"ok", "duplicate", "registered", "created"}, Respond(r, o),
         UNCHANGED <<store, now, valid, signedOut, cache, profiles, accounts, todo, characters,
                     failures, cut>>, UNCHANGED boardVars
  PROVE  SiteInv'
<1>1. SiteTypeOK
  BY DEF SiteInv
<1>2. /\ RouteStep(r) /\ Leaves(r) /\ Told(r, {o})
      /\ req'[r].pc \notin {"insert", "insert organizer", "pick", "insert seat", "insert staff"}
  BY <1>1, AnswerRoutes
<1>3. Truthful
  BY <1>2, RejectionsTruthful
<1> QED
  BY <1>2, <1>3, QuietRoute

LEMMA AnswerMeKeeps ==
  ASSUME SiteInv, NEW r \in Request, AnswerMe(r), UNCHANGED boardVars
  PROVE  SiteInv'
<1>1. req[r].pc = "me" /\ Respond(r, "me")
      /\ UNCHANGED <<store, now, valid, signedOut, cache, profiles, accounts, characters,
                     todo, failures, cut>>
  BY DEF AnswerMe
<1>2. "me" \in Outcome \ {"ok", "duplicate", "registered", "created"}
      /\ req[r].pc \notin SignIn \cup {"idle", "insert organizer"}
  BY <1>1 DEF Outcome, SignIn
<1> QED
  BY <1>1, <1>2, RefuseKeeps

LEMMA ThrottleKeeps ==
  ASSUME SiteInv, NEW r \in Request, Throttle(r), UNCHANGED boardVars
  PROVE  SiteInv'
<1>1. req[r].pc \in {"check", "profile of organizer", "count", "event"} /\ Respond(r, "limited")
      /\ UNCHANGED <<store, now, valid, signedOut, cache, profiles, accounts, characters,
                     todo, failures, cut>>
  BY DEF Throttle
<1>2. "limited" \in Outcome \ {"ok", "duplicate", "registered", "created"}
      /\ req[r].pc \notin SignIn \cup {"idle", "insert organizer"}
  BY <1>1 DEF Outcome, SignIn
<1> QED
  BY <1>1, <1>2, RefuseKeeps

\* The process exits: no request is in flight and the cache is empty.  An event
\* that was due is one that was cut off.
LEMMA DieKeeps ==
  ASSUME SiteInv, NEW r \in Request, Die(r), UNCHANGED boardVars
  PROVE  SiteInv'
<1>1. SiteTypeOK /\ SignInInv
  BY DEF SiteInv
<1>2. /\ failures < MaxFail /\ failures' = failures + 1
      /\ cut' = cut \cup Due
      /\ req' = [q \in Request |-> Idle]
      /\ cache' = [s \in Session |-> NoEntry]
      /\ UNCHANGED <<store, now, valid, signedOut, profiles, accounts, characters, todo, answers>>
      /\ UNCHANGED <<events, seats, staff>>
  BY DEF Die, boardVars
<1>3. \A q \in Request : req'[q] = Idle /\ req'[q].pc = "idle"
  BY <1>2, IdlePc
<1>4. InFlight' = {} /\ Due' = {}
  BY <1>3 DEF InFlight, Due
<1>5. \A s \in Session : cache'[s].account = NoSlug
  BY <1>2 DEF NoEntry
<1>6. \A e : Exists(e)' <=> Exists(e)
  BY <1>2 DEF Exists
<1>7. Due \subseteq Event
  <2>1. ASSUME NEW q \in Request, req[q].pc = "insert organizer"
        PROVE  req[q].op.event \in Event
    <3>1. req[q].op.kind = "create" /\ req[q].op \in Operation
      BY <1>1, <2>1, Kinds, Here DEF SignIn
    <3> QED
      BY <3>1, Fields
  <2> QED
    BY <2>1 DEF Due
<1>8. SiteTypeOK'
  <2>1. failures' \in 0 .. MaxFail
    BY <1>1, <1>2, Failures, Assumption
  <2>2. cut' \subseteq Event
    BY <1>1, <1>2, <1>7 DEF SiteTypeOK, AccTypeOK
  <2>3. req' \in [Request -> {Idle} \cup Busy]
    BY <1>2
  <2>4. cache' \in [Session -> [until: Nat, account: Slug \cup {NoSlug}]]
    BY <1>2 DEF NoEntry
  <2>5. AccTypeOK'
    BY <1>1, <1>2, <2>1, <2>2, <2>3, <2>4 DEF SiteTypeOK, AccTypeOK
  <2>6. BoardTypeOK'
    BY <1>1, <1>2 DEF SiteTypeOK, BoardTypeOK
  <2> QED
    BY <2>5, <2>6 DEF SiteTypeOK
<1>9. OneAccountPerUser'
  BY <1>3, <1>5 DEF OneAccountPerUser
<1>10. SignInInv' /\ CacheInv' /\ SentOnce'
  BY <1>2, <1>4, <1>5 DEF SiteInv, SignInInv, CacheInv, SentOnce
<1>11. Numbered'
  BY <1>2 DEF SiteInv, Numbered
<1>12. NameInv'
  <2> SUFFICES ASSUME NEW n \in Name
               PROVE  /\ store' = "memory" => Inserting(n)' = {} /\ Cardinality(Holders(n)') <= 1
                      /\ Holders(n)' # {} =>
                           Cardinality(Holders(n)') + Cardinality(Inserting(n)')
                             <= Cardinality(Request)
    BY DEF NameInv
  <2>1. Holders(n)' = Holders(n) /\ Inserting(n)' = {}
    BY <1>2, <1>3 DEF Holders, Inserting
  <2>2. Cardinality(Inserting(n)') = 0
    BY <2>1, FS_EmptySet
  <2>3. /\ store = "memory" => Cardinality(Holders(n)) <= 1
        /\ Holders(n) # {} =>
             Cardinality(Holders(n)) + Cardinality(Inserting(n)) <= Cardinality(Request)
    BY DEF SiteInv, NameInv
  <2>4. /\ Cardinality(Holders(n)) \in Nat /\ Cardinality(Inserting(n)) \in Nat
        /\ Cardinality(Request) \in Nat
    BY Counted
  <2> QED
    BY <1>2, <2>1, <2>2, <2>3, <2>4
<1>13. EventInv'
  <2>1. \A q \in Request : req'[q].pc \notin {"pick", "insert seat", "insert staff"}
    BY <1>3
  <2>2. \A op \in todo' : op.kind = "create" => ~Exists(op.event)'
    BY <1>2, <1>6 DEF SiteInv, EventInv
  <2> QED
    BY <1>4, <2>1, <2>2 DEF EventInv
<1>14. SeatInv'
  BY <1>2, <1>3, <1>6 DEF SiteInv, SeatInv, Owns
<1>15. CapInv'
  <2> SUFFICES ASSUME NEW e \in Event, Exists(e)
               PROVE  Cardinality(SeatsOf(e)') + Cardinality(Entering(e)')
                        <= events'[e].cap + Cardinality(Request) - 1
    BY <1>6 DEF CapInv
  <2>1. SeatsOf(e)' = SeatsOf(e) /\ Entering(e)' = {} /\ events'[e].cap = events[e].cap
    BY <1>2, <1>3 DEF SeatsOf, Entering
  <2>2. Cardinality(Entering(e)') = 0
    BY <2>1, FS_EmptySet
  <2>3. Cardinality(SeatsOf(e)) + Cardinality(Entering(e)) <= events[e].cap + Cardinality(Request) - 1
    BY DEF SiteInv, CapInv
  <2>4. /\ Cardinality(SeatsOf(e)) \in Nat /\ Cardinality(Entering(e)) \in Nat
        /\ Cardinality(Request) \in Nat \ {0} /\ events[e].cap \in Nat
    BY <1>1, Counted DEF SiteTypeOK, BoardTypeOK
  <2> QED
    BY <2>1, <2>2, <2>3, <2>4
<1>16. AnsweredSeat'
  BY <1>2 DEF SiteInv, AnsweredSeat, SeatsOf, Registered
<1>17. StaffInv'
  <2>1. Unstaffed' = Unstaffed
    BY <1>2, <1>6 DEF Unstaffed
  <2> QED
    BY <1>2, <1>6, <2>1 DEF SiteInv, StaffInv, OrganizerIsStaff
<1> QED
  BY <1>8, <1>9, <1>10, <1>11, <1>12, <1>13, <1>14, <1>15, <1>16, <1>17 DEF SiteInv

-----------------------------------------------------------------------------
(* Registering a character. *)

\* Any step between test and insert of the names leaves the rest alone.
LEMMA CharacterStep ==
  ASSUME SiteInv, NEW r \in Request, RouteStep(r), req[r].pc \in {"check", "insert"},
         characters \subseteq characters', characters' \subseteq Character,
         UNCHANGED boardVars, UNCHANGED <<failures, cut>>, Truthful,
         req'[r].pc \in {"idle", "insert"}
  PROVE  /\ SiteTypeOK' /\ OneAccountPerUser' /\ SignInInv' /\ CacheInv' /\ SentOnce'
         /\ EventInv' /\ SeatInv' /\ CapInv' /\ AnsweredSeat' /\ StaffInv'
<1>1. /\ OneAccountPerUser' /\ SignInInv' /\ CacheInv' /\ SentOnce'
      /\ req' \in [Request -> {Idle} \cup Busy] /\ answers' \subseteq Answer /\ Others(r)
      /\ req'[r] = Idle \/ (req'[r] \in Busy /\ req'[r].op = req[r].op)
  BY RouteRequests
<1>2. UNCHANGED <<store, now, valid, signedOut, cache, profiles, accounts, todo>>
      /\ req[r] \in Busy
  BY DEF RouteStep
<1>3. UNCHANGED <<events, seats, staff>>
  BY DEF boardVars
<1>4. r \in InFlight
  BY Here DEF SiteInv
<1>5. SiteTypeOK'
  <2>1. AccTypeOK'
    BY <1>1, <1>2 DEF SiteInv, SiteTypeOK, AccTypeOK
  <2>2. BoardTypeOK'
    BY <1>3 DEF SiteInv, SiteTypeOK, BoardTypeOK
  <2> QED
    BY <2>1, <2>2 DEF SiteTypeOK
<1>6. Avoids(r, {"insert organizer"}) /\ Avoids(r, {"pick", "insert seat"})
  BY <1>1, <1>2 DEF Avoids
<1>7. \A e : Exists(e) => Exists(e)'
  BY <1>3 DEF Exists
<1>8. EventInv'
  BY <1>2, <1>3, <1>4, <1>6, EventKept DEF SiteInv
<1>9. SeatInv'
  BY <1>1, <1>3, <1>7, SeatKept DEF SiteInv
<1>10. CapInv'
  BY <1>3, <1>6, AvoidsEntering, CapKept
<1>11. AnsweredSeat'
  BY <1>3, AnsweredKept DEF SiteInv, Truthful
<1>12. StaffInv'
  <2>1. cut \subseteq cut'
    OBVIOUS
  <2>2. Due \subseteq Due'
    BY <1>1, DueKept
  <2> QED
    BY <1>3, <2>1, <2>2, StaffKept DEF SiteInv, Truthful
<1> QED
  BY <1>1, <1>5, <1>8, <1>9, <1>10, <1>11, <1>12

\* A new row has the next number, and takes a place among those that hold its
\* name or were to hold it.
LEMMA AddKeeps ==
  ASSUME SiteInv, NEW r \in Request, req[r].pc \in {"check", "insert"}, AddCharacter(r),
         req[r].pc = "check" => store = "memory" /\ ~NameTaken(req[r].op.name),
         UNCHANGED <<store, now, valid, signedOut, cache, profiles, accounts, todo, failures, cut>>,
         UNCHANGED boardVars
  PROVE  SiteInv'
<1>1. SiteTypeOK /\ SignInInv /\ Numbered
  BY DEF SiteInv
<1>2. req[r].pc # "idle" /\ req[r].pc \notin SignIn \cup {"idle"} /\ "created" \in Outcome
  BY DEF SignIn, Outcome
<1>3. req[r] \in Busy /\ req[r].op \in Operation
  BY <1>1, <1>2, Here
<1>4. req[r].op.kind = "character" /\ req[r].account \in Slug
  BY <1>1, <1>2, Kinds
<1>5. req[r].op.name \in Name
  BY <1>3, <1>4, Fields
<1> DEFINE n == req[r].op.name
           k == Cardinality(characters) + 1
           c == [id |-> k, name |-> n, account |-> req[r].account]
<1>6. characters' = characters \cup {c} /\ Respond(r, "created")
  BY DEF AddCharacter
<1>7. Cardinality(characters) \in Nat /\ IsFiniteSet(characters)
  BY <1>1, FS_CardinalityType DEF Numbered
<1>8. k \in Nat \ {0} /\ c \in Character /\ c.id = k /\ c.name = n
  BY <1>4, <1>5, <1>7 DEF Character
<1>9. characters \subseteq Character /\ \A d \in characters : d.id \in Nat /\ d.id <= Cardinality(characters)
  BY <1>1 DEF SiteTypeOK, AccTypeOK, Numbered, Character
<1>10. /\ RouteStep(r) /\ Leaves(r) /\ Told(r, {"created"})
       /\ req'[r].pc \notin {"insert", "insert organizer", "pick", "insert seat", "insert staff"}
  BY <1>1, <1>2, <1>6, AnswerRoutes
<1>11. Truthful
  BY <1>4, <1>10 DEF Told, Truthful, SeatsTold, NoneCreated
<1>12. c \notin characters
  BY <1>7, <1>8, <1>9
<1> HIDE DEF c, k, n
<1>13. characters \subseteq characters' /\ characters' \subseteq Character
  BY <1>6, <1>8, <1>9
<1>14. /\ SiteTypeOK' /\ OneAccountPerUser' /\ SignInInv' /\ CacheInv' /\ SentOnce'
       /\ EventInv' /\ SeatInv' /\ CapInv' /\ AnsweredSeat' /\ StaffInv'
  BY <1>10, <1>11, <1>13, IdlePc, CharacterStep DEF Leaves
<1>15. Numbered'
  <2>1. IsFiniteSet(characters') /\ Cardinality(characters') = Cardinality(characters) + 1
    BY <1>6, <1>7, <1>12, FS_AddElement
  <2>2. \A d \in characters' : d.id <= Cardinality(characters')
    BY <1>6, <1>7, <1>8, <1>9, <2>1 DEF k
  <2>3. \A d \in characters : d.id # c.id
    BY <1>7, <1>8, <1>9 DEF k
  <2>4. \A d, f \in characters' : d.id = f.id => d = f
    BY <1>1, <1>6, <2>3 DEF Numbered
  <2> QED
    BY <2>1, <2>2, <2>4 DEF Numbered
<1>16. NameInv'
  <2> SUFFICES ASSUME NEW m \in Name
               PROVE  /\ store' = "memory" => Inserting(m)' = {} /\ Cardinality(Holders(m)') <= 1
                      /\ Holders(m)' # {} =>
                           Cardinality(Holders(m)') + Cardinality(Inserting(m)')
                             <= Cardinality(Request)
    BY DEF NameInv
  <2>1. /\ IsFiniteSet(Holders(m)) /\ Cardinality(Holders(m)) \in Nat
        /\ IsFiniteSet(Inserting(m)) /\ Cardinality(Inserting(m)) \in Nat
        /\ Cardinality(Inserting(m)) <= Cardinality(Request)
        /\ Cardinality(Request) \in Nat \ {0}
    BY Counted
  <2>2. /\ store = "memory" => Inserting(m) = {} /\ Cardinality(Holders(m)) <= 1
        /\ Holders(m) # {} =>
             Cardinality(Holders(m)) + Cardinality(Inserting(m)) <= Cardinality(Request)
    BY DEF SiteInv, NameInv
  <2>3. \A q \in Request : req'[q].pc = "insert" => q # r /\ req'[q] = req[q]
    BY <1>10 DEF Leaves, Others
  <2>4. Inserting(m)' \in SUBSET (Inserting(m) \ {r})
    BY <2>3 DEF Inserting
  <2>5. /\ Cardinality(Inserting(m) \ {r}) =
             IF r \in Inserting(m) THEN Cardinality(Inserting(m)) - 1
             ELSE Cardinality(Inserting(m))
        /\ IsFiniteSet(Inserting(m) \ {r})
    BY <2>1, FS_RemoveElement
  <2>6. Cardinality(Inserting(m)') \in Nat
        /\ Cardinality(Inserting(m)') <= Cardinality(Inserting(m) \ {r})
    BY <2>4, <2>5, FS_Subset, FS_CardinalityType
  <2>7. CASE m # n
    <3>1. Holders(m)' = Holders(m)
      BY <1>6, <1>8, <2>7 DEF Holders
    <3>2. Cardinality(Inserting(m)') <= Cardinality(Inserting(m))
      BY <2>1, <2>5, <2>6
    <3>3. store' = "memory" => Inserting(m)' = {} /\ Cardinality(Holders(m)') <= 1
      BY <2>2, <2>4, <3>1
    <3> QED
      BY <2>1, <2>2, <2>6, <3>1, <3>2, <3>3
  <2>8. CASE m = n
    <3>1. Holders(m)' = Holders(m) \cup {c} /\ c \notin Holders(m)
      BY <1>6, <1>8, <1>12, <2>8 DEF Holders
    <3>2. Cardinality(Holders(m)') = Cardinality(Holders(m)) + 1
      BY <2>1, <3>1, FS_AddElement
    <3>3. CASE req[r].pc = "insert"
      <4>1. r \in Inserting(m)
        BY <2>8, <3>3 DEF Inserting, n
      <4>2. store # "memory"
        BY <2>2, <4>1
      <4>3. Cardinality(Inserting(m)') <= Cardinality(Inserting(m)) - 1
        BY <2>5, <2>6, <4>1
      <4>4. Cardinality(Holders(m)) + Cardinality(Inserting(m)) <= Cardinality(Request)
        <5>1. CASE Holders(m) # {}
          BY <2>2, <5>1
        <5>2. CASE Holders(m) = {}
          BY <2>1, <5>2, FS_EmptySet
        <5> QED
          BY <5>1, <5>2
      <4>5. Cardinality(Holders(m)') + Cardinality(Inserting(m)') <= Cardinality(Request)
        BY <2>1, <2>6, <3>2, <4>3, <4>4
      <4> QED
        BY <4>2, <4>5
    <3>4. CASE req[r].pc = "check"
      <4>1. store = "memory" /\ Holders(m) = {}
        BY <2>8, <3>4 DEF NameTaken, Holders, n
      <4>2. Inserting(m)' = {} /\ Cardinality(Holders(m)') = 1
        BY <2>2, <2>4, <3>2, <4>1, FS_EmptySet
      <4> QED
        BY <2>1, <4>2, FS_EmptySet
    <3> QED
      BY <3>3, <3>4
  <2> QED
    BY <2>7, <2>8
<1> QED
  BY <1>14, <1>15, <1>16 DEF SiteInv

LEMMA CreateInMemoryKeeps ==
  ASSUME SiteInv, NEW r \in Request, CreateInMemory(r), UNCHANGED boardVars
  PROVE  SiteInv'
<1>1. req[r].pc = "check" /\ store = "memory"
      /\ UNCHANGED <<store, now, valid, signedOut, cache, profiles, accounts, todo, failures, cut>>
  BY DEF CreateInMemory
<1>2. "name_taken" \in Outcome \ {"ok", "duplicate", "registered", "created"}
      /\ req[r].pc \notin SignIn \cup {"idle", "insert organizer"}
  BY <1>1 DEF Outcome, SignIn
<1>3. CASE Respond(r, "name_taken") /\ UNCHANGED characters
  BY <1>1, <1>2, <1>3, RefuseKeeps
<1>4. CASE ~NameTaken(req[r].op.name) /\ AddCharacter(r)
  BY <1>1, <1>4, AddKeeps
<1> QED
  BY <1>3, <1>4 DEF CreateInMemory

LEMMA InsertCharacterKeeps ==
  ASSUME SiteInv, NEW r \in Request, InsertCharacter(r), UNCHANGED boardVars
  PROVE  SiteInv'
BY AddKeeps DEF InsertCharacter

LEMMA CheckNameKeeps ==
  ASSUME SiteInv, NEW r \in Request, CheckName(r), UNCHANGED boardVars
  PROVE  SiteInv'
<1>1. req[r].pc = "check" /\ store = "pg"
      /\ UNCHANGED <<store, now, valid, signedOut, cache, profiles, accounts, characters,
                     todo, failures, cut>>
  BY DEF CheckName
<1>2. "name_taken" \in Outcome \ {"ok", "duplicate", "registered", "created"}
      /\ req[r].pc \notin SignIn \cup {"idle", "insert organizer"}
  BY <1>1 DEF Outcome, SignIn
<1>3. CASE Respond(r, "name_taken")
  BY <1>1, <1>2, <1>3, RefuseKeeps
<1>4. CASE ~NameTaken(req[r].op.name) /\ Goto(r, "insert") /\ UNCHANGED answers
  <2>1. SiteTypeOK /\ SignInInv /\ Numbered
    BY DEF SiteInv
  <2>2. req[r].op.kind = "character"
    BY <1>1, <2>1, Kinds
  <2>3. "insert" \in Steps["character"] /\ "insert" \in OnRoute
    BY DEF Steps, OnRoute
  <2>4. Silent
    BY <1>4 DEF Silent
  <2>5. RouteStep(r) /\ Goes(r, "insert")
    BY <1>1, <1>2, <1>4, <2>1, <2>2, <2>3, <2>4, GotoRoutes
  <2>6. characters \subseteq characters' /\ characters' \subseteq Character
    BY <1>1, <2>1 DEF SiteTypeOK, AccTypeOK
  <2>7. /\ SiteTypeOK' /\ OneAccountPerUser' /\ SignInInv' /\ CacheInv' /\ SentOnce'
        /\ EventInv' /\ SeatInv' /\ CapInv' /\ AnsweredSeat' /\ StaffInv'
    BY <1>1, <2>4, <2>5, <2>6, SilentTruthful, CharacterStep DEF Goes
  <2>8. Numbered'
    BY <1>1, <2>1, NumberedKept
  <2>9. NameInv'
    <3> SUFFICES ASSUME NEW m \in Name, Holders(m) # {}
                 PROVE  Cardinality(Holders(m)) + Cardinality(Inserting(m)')
                          <= Cardinality(Request)
      BY <1>1 DEF NameInv, Holders
    <3>1. m # req[r].op.name
      BY <1>4 DEF NameTaken, Holders
    <3>2. Inserting(m)' = Inserting(m)
      <4>1. \A q \in Request : q # r => req'[q] = req[q]
        BY <2>5 DEF Goes, Others
      <4>2. req'[r].op.name # m /\ req[r].op.name # m
        BY <2>5, <3>1 DEF Goes
      <4> QED
        BY <4>1, <4>2 DEF Inserting
    <3> QED
      BY <3>2 DEF SiteInv, NameInv
  <2> QED
    BY <2>7, <2>8, <2>9 DEF SiteInv
<1> QED
  BY <1>3, <1>4 DEF CheckName

-----------------------------------------------------------------------------
(***************************************************************************)
(* The event board.                                                        *)
(***************************************************************************)

LEMMA OnBoardFrame ==
  ASSUME SiteTypeOK, NEW r \in Request, NEW pc \in OnRoute, OnBoard(r, pc)
  PROVE  /\ req[r].pc = pc /\ req[r].pc \notin SignIn \cup {"idle"}
         /\ UNCHANGED <<store, now, valid, signedOut, cache, profiles, accounts, characters,
                        todo, failures, cut>>
         /\ req[r] \in Busy /\ r \in InFlight /\ req[r].op \in Operation
<1>1. /\ req[r].pc = pc
      /\ UNCHANGED <<store, now, valid, signedOut, cache, profiles, accounts, characters,
                     todo, failures, cut>>
  BY DEF OnBoard
<1>2. req[r].pc \notin SignIn \cup {"idle"}
  BY <1>1 DEF OnRoute, SignIn
<1> QED
  BY <1>1, <1>2, Here

\* A route that leaves requests, accounts and characters as they should be.
LEMMA BoardRequests ==
  ASSUME SiteInv, NEW r \in Request, RouteStep(r), UNCHANGED <<characters, failures, cut>>,
         BoardTypeOK', req'[r].pc # "insert"
  PROVE  /\ SiteTypeOK' /\ OneAccountPerUser' /\ SignInInv' /\ CacheInv' /\ SentOnce'
         /\ Numbered' /\ NameInv'
<1>1. /\ OneAccountPerUser' /\ SignInInv' /\ CacheInv' /\ SentOnce'
      /\ req' \in [Request -> {Idle} \cup Busy] /\ answers' \subseteq Answer /\ Others(r)
      /\ req'[r] = Idle \/ (req'[r] \in Busy /\ req'[r].op = req[r].op)
  BY RouteRequests
<1>2. UNCHANGED <<store, now, valid, signedOut, cache, profiles, accounts, todo>>
      /\ req[r] \in Busy
  BY DEF RouteStep
<1>3. SiteTypeOK'
  <2>1. AccTypeOK'
    BY <1>1, <1>2 DEF SiteInv, SiteTypeOK, AccTypeOK
  <2> QED
    BY <2>1 DEF SiteTypeOK
<1>4. Avoids(r, {"insert"})
  BY <1>1, <1>2 DEF Avoids
<1>5. Numbered' /\ NameInv'
  BY <1>2, <1>4, NumberedKept, NameKept DEF SiteInv
<1> QED
  BY <1>1, <1>3, <1>5

-----------------------------------------------------------------------------
(* Organizing an event. *)

LEMMA CreateEventKeeps ==
  ASSUME SiteInv, NEW r \in Request, CreateEvent(r)
  PROVE  SiteInv'
<1>1. OnBoard(r, "profile of organizer") /\ Goto(r, "insert event") /\ Silent
      /\ UNCHANGED boardVars
  BY DEF CreateEvent, Silent
<1>2. SiteTypeOK /\ SignInInv /\ "profile of organizer" \in OnRoute /\ "insert event" \in OnRoute
  BY DEF SiteInv, OnRoute
<1>3. /\ req[r].pc = "profile of organizer" /\ req[r].pc \notin SignIn \cup {"idle"}
      /\ UNCHANGED <<store, now, valid, signedOut, cache, profiles, accounts, characters,
                     todo, failures, cut>>
  BY <1>1, <1>2, OnBoardFrame
<1>4. req[r].op.kind = "create"
  BY <1>2, <1>3, Kinds
<1>5. "insert event" \in Steps["create"]
  BY DEF Steps
<1>6. RouteStep(r) /\ Goes(r, "insert event")
  BY <1>1, <1>2, <1>3, <1>4, <1>5, GotoRoutes
<1>8. Truthful
  BY <1>1, SilentTruthful
<1>9. req'[r].pc = "insert event"
  BY <1>6 DEF Goes
<1> QED
  BY <1>1, <1>3, <1>6, <1>8, <1>9, QuietRoute

\* Room for fewer.
LEMMA Fits ==
  ASSUME NEW s \in Nat, NEW u \in Nat, NEW v \in Nat, NEW c \in Nat, NEW n \in Nat \ {0}
  PROVE  /\ v <= u /\ s + u <= c + n - 1 => s + v <= c + n - 1
         /\ 0 + 0 <= c + n - 1
OBVIOUS

\* The event is there from now on.  In memory its organizer is on the staff at
\* once; on Postgres the handler has that row to write.
LEMMA NewEventKeeps ==
  ASSUME SiteInv, NEW r \in Request, req[r].pc \in {"profile of organizer", "insert event"},
         NewEvent(req[r].op.event, req[r].account, req[r].op.cap),
         RouteStep(r), UNCHANGED <<characters, failures, cut, seats>>,
         \/ Goes(r, "insert organizer") /\ Silent /\ staff' = staff
         \/ /\ Leaves(r) /\ Told(r, {"created"})
            /\ AddStaffRow(req[r].op.event, req[r].account, "organizer")
  PROVE  SiteInv'
<1> DEFINE e == req[r].op.event
           a == req[r].account
           row == [organizer |-> a, cap |-> req[r].op.cap]
           badge == [event |-> e, account |-> a, role |-> "organizer"]
<1>1. SiteTypeOK /\ SignInInv /\ SentOnce /\ EventInv
  BY DEF SiteInv
<1>2. req[r].pc # "idle" /\ req[r].pc \notin SignIn
  BY DEF SignIn
<1>3. req[r] \in Busy /\ r \in InFlight /\ req[r].op \in Operation
  BY <1>1, <1>2, Here
<1>4. req[r].op.kind = "create" /\ a \in Slug
  BY <1>1, <1>2, Kinds
<1>5. e \in Event /\ req[r].op.cap \in Nat
  BY <1>3, <1>4, Fields
<1>6. ~Exists(e)
  BY <1>3, <1>4 DEF SiteInv, EventInv
<1>7. events' = [events EXCEPT ![e] = row]
  BY DEF NewEvent
<1>8. row \in [organizer: Slug \cup {NoSlug}, cap: Nat] /\ row # NoRow
      /\ row.organizer = a /\ row.cap = req[r].op.cap
  BY <1>4, <1>5, Assumption DEF NoRow
<1>9. events \in [Event -> [organizer: Slug \cup {NoSlug}, cap: Nat]]
  BY <1>1 DEF SiteTypeOK, BoardTypeOK
<1>10. \A p \in Operation : p.kind = "create" /\ p.event = e => p = req[r].op
  BY <1>3, <1>4, AccountsAssumption
<1> HIDE DEF row
<1>11. events'[e] = row /\ \A x \in Event : x # e => events'[x] = events[x]
  BY <1>5, <1>7, <1>9
<1> HIDE DEF e, a
<1>12. \A x : Exists(x)' <=> (Exists(x) \/ x = e)
  BY <1>5, <1>8, <1>11 DEF Exists
<1>13. \/ Goes(r, "insert organizer") /\ Silent /\ staff' = staff
       \/ Leaves(r) /\ Told(r, {"created"}) /\ staff' = staff \cup {badge}
  BY DEF AddStaffRow, a, e
<1>14. BoardTypeOK'
  <2>1. events' \in [Event -> [organizer: Slug \cup {NoSlug}, cap: Nat]]
    BY <1>5, <1>7, <1>8, <1>9
  <2>2. badge \in [event: Event, account: Slug, role: {"organizer", "referee"}]
    BY <1>4, <1>5
  <2>3. staff \subseteq [event: Event, account: Slug, role: {"organizer", "referee"}]
        /\ seats' \subseteq [event: Event, account: Slug, char: Nat]
    BY <1>1 DEF SiteTypeOK, BoardTypeOK
  <2>4. staff' \subseteq [event: Event, account: Slug, role: {"organizer", "referee"}]
    BY <1>13, <2>2, <2>3
  <2> QED
    BY <2>1, <2>3, <2>4 DEF BoardTypeOK
<1>15. Others(r) /\ (req'[r] = Idle \/ (req'[r] \in Busy /\ req'[r].op = req[r].op
                                 /\ req'[r].account = req[r].account))
       /\ req' \in [Request -> {Idle} \cup Busy]
  BY RouteRequests
<1>16. req'[r].pc \in {"idle", "insert organizer"}
  BY <1>13, IdlePc DEF Leaves, Goes
<1>17. /\ SiteTypeOK' /\ OneAccountPerUser' /\ SignInInv' /\ CacheInv' /\ SentOnce'
       /\ Numbered' /\ NameInv'
  BY <1>14, <1>16, BoardRequests
<1>18. EventInv'
  <2>1. todo' = todo /\ todo \subseteq Operation
    BY <1>1 DEF RouteStep, SiteTypeOK, AccTypeOK
  <2>2. ASSUME NEW p \in todo', p.kind = "create"
        PROVE  ~Exists(p.event)'
    <3>1. p # req[r].op /\ p \in Operation /\ ~Exists(p.event)
      BY <1>1, <1>3, <2>1, <2>2 DEF SentOnce, EventInv
    <3> QED
      BY <1>10, <1>12, <2>2, <3>1
  <2>3. ASSUME NEW q \in InFlight', req'[q].op.kind = "create"
        PROVE  IF req'[q].pc = "insert organizer"
               THEN events'[req'[q].op.event]
                      = [organizer |-> req'[q].account, cap |-> req'[q].op.cap]
               ELSE ~Exists(req[q].op.event)'
    <3>1. CASE q = r
      <4>1. req'[r].op = req[r].op /\ req'[r].account = a /\ req'[r].pc = "insert organizer"
        BY <1>15, <1>13, <2>3, <3>1 DEF InFlight, Leaves, Goes, a
      <4> QED
        BY <1>11, <3>1, <4>1 DEF e, row
    <3>2. CASE q # r
      <4>1. q \in InFlight /\ req'[q] = req[q]
        BY <1>15, <3>2 DEF InFlight, Others
      <4>2. req[q].op \in Operation /\ req[q].op # req[r].op
        BY <1>1, <1>3, <3>2, <4>1, Flight, Here DEF SentOnce
      <4>3. req[q].op.event # e
        BY <1>10, <2>3, <4>1, <4>2
      <4>4. req[q].op.event \in Event
        BY <2>3, <4>1, <4>2, Fields
      <4>5. IF req[q].pc = "insert organizer"
            THEN events[req[q].op.event] = [organizer |-> req[q].account, cap |-> req[q].op.cap]
            ELSE ~Exists(req[q].op.event)
        BY <1>1, <2>3, <4>1 DEF EventInv
      <4>6. events'[req[q].op.event] = events[req[q].op.event]
        BY <1>11, <4>3, <4>4
      <4> QED
        BY <4>1, <4>5, <4>6 DEF Exists
    <3> QED
      BY <3>1, <3>2
  <2>4. ASSUME NEW q \in Request, req'[q].pc \in {"pick", "insert seat", "insert staff"}
        PROVE  Exists(req[q].op.event)'
    <3>1. q # r /\ req'[q] = req[q]
      BY <1>15, <1>16, <2>4 DEF Others
    <3>2. Exists(req[q].op.event)
      BY <1>1, <2>4, <3>1 DEF EventInv
    <3>3. events'[req[q].op.event] = events[req[q].op.event]
      BY <1>6, <1>11, <3>2 DEF Exists
    <3> QED
      BY <3>1, <3>2, <3>3 DEF Exists
  <2> QED
    BY <2>2, <2>3, <2>4 DEF EventInv
<1>19. SeatInv'
  BY <1>12, <1>15, <1>16, SeatKept DEF SiteInv
<1>20. CapInv'
  <2> SUFFICES ASSUME NEW x \in Event, Exists(x)'
               PROVE  Cardinality(SeatsOf(x)') + Cardinality(Entering(x)')
                        <= events'[x].cap + Cardinality(Request) - 1
    BY DEF CapInv
  <2>1. SeatsOf(x)' = SeatsOf(x)
    BY DEF SeatsOf
  <2>2. Avoids(r, {"pick", "insert seat"})
    BY <1>3, <1>15, <1>16 DEF Avoids
  <2>3. Entering(x)' \in SUBSET Entering(x)
    BY <2>2, AvoidsEntering
  <2>4. /\ Cardinality(SeatsOf(x)) \in Nat
        /\ IsFiniteSet(Entering(x)) /\ Cardinality(Entering(x)) \in Nat
        /\ Cardinality(Request) \in Nat \ {0}
    BY Counted
  <2>5. Cardinality(Entering(x)') \in Nat
        /\ Cardinality(Entering(x)') <= Cardinality(Entering(x))
    BY <2>3, <2>4, FS_Subset, FS_CardinalityType
  <2>6. CASE x = e
    <3>1. SeatsOf(x) = {} /\ Entering(x) = {}
      BY <1>6, <2>6 DEF SiteInv, SeatInv, EventInv, SeatsOf, Entering
    <3>2. Cardinality(SeatsOf(x)') = 0 /\ Cardinality(Entering(x)') = 0
      BY <2>1, <2>3, <3>1, FS_EmptySet
    <3>3. events'[x].cap \in Nat
      BY <1>5, <1>8, <1>11, <2>6
    <3> DEFINE S == Cardinality(SeatsOf(x)')
               T == Cardinality(Entering(x)')
               c == events'[x].cap
               n == Cardinality(Request)
    <3>4. S = 0 /\ T = 0 /\ c \in Nat /\ n \in Nat \ {0}
      BY <2>4, <3>2, <3>3
    <3> HIDE DEF S, T, c, n
    <3>5. 0 + 0 <= c + n - 1
      BY <3>4, Fits
    <3>6. S + T <= c + n - 1
      BY <3>4, <3>5
    <3> QED
      BY <3>6 DEF S, T, c, n
  <2>7. CASE x # e
    <3>1. Exists(x) /\ events'[x] = events[x] /\ events[x].cap \in Nat
      BY <1>9, <1>11, <1>12, <2>7
    <3>2. Cardinality(SeatsOf(x)) + Cardinality(Entering(x))
            <= events[x].cap + Cardinality(Request) - 1
      BY <3>1 DEF SiteInv, CapInv
    <3> DEFINE S == Cardinality(SeatsOf(x))
               T == Cardinality(Entering(x))
               U == Cardinality(Entering(x)')
               c == events[x].cap
               n == Cardinality(Request)
    <3>3. /\ S \in Nat /\ T \in Nat /\ U \in Nat /\ c \in Nat /\ n \in Nat \ {0}
          /\ U <= T /\ S + T <= c + n - 1
      BY <2>4, <2>5, <3>1, <3>2
    <3> HIDE DEF S, T, U, c, n
    <3>4. S + U <= c + n - 1
      BY <3>3, Fits
    <3>5. Cardinality(SeatsOf(x)') = S /\ events'[x].cap = c
      BY <2>1, <3>1 DEF S, c
    <3> QED
      BY <3>4, <3>5 DEF U, n
  <2> QED
    BY <2>6, <2>7
<1>21. AnsweredSeat'
  <2>1. SeatsTold
    BY <1>13 DEF SeatsTold, Told, Silent
  <2> QED
    BY <2>1, AnsweredKept DEF SiteInv
<1>22. StaffInv'
  <2>1. Unstaffed \subseteq Due \cup cut /\ cut' = cut
    BY DEF SiteInv, StaffInv, OrganizerIsStaff
  <2>2. Unstaffed' \subseteq Unstaffed \cup {e}
    <3>1. staff \subseteq staff'
      BY <1>13
    <3> QED
      BY <1>11, <1>12, <3>1 DEF Unstaffed
  <2>3. Due \subseteq Due'
    BY <1>15, <1>2, DueKept
  <2>4. e \in Due' \/ e \notin Unstaffed'
    <3>1. CASE Goes(r, "insert organizer")
      BY <3>1 DEF Goes, Due, e
    <3>2. CASE staff' = staff \cup {badge}
      BY <1>8, <1>11, <3>2 DEF Unstaffed
    <3> QED
      BY <1>13, <3>1, <3>2
  <2>5. Unstaffed' \subseteq Due' \cup cut'
    BY <2>1, <2>2, <2>3, <2>4
  <2>8. ASSUME NEW y \in answers', y.op.kind = "create", y.outcome = "created"
        PROVE  Exists(y.op.event)' /\ y.op.event \notin Unstaffed'
    <3>1. CASE y \in answers
      <4>1. Exists(y.op.event) /\ y.op.event \notin Unstaffed
        BY <2>8, <3>1 DEF SiteInv, StaffInv, OrganizerIsStaff
      <4> QED
        BY <1>6, <1>12, <2>2, <4>1
    <3>2. CASE y \notin answers
      <4>1. y.op = req[r].op /\ staff' = staff \cup {badge}
        BY <1>13, <3>2 DEF Told, Silent
      <4>2. y.op.event = e /\ e \notin Unstaffed'
        BY <1>8, <1>11, <4>1 DEF Unstaffed, e
      <4> QED
        BY <1>12, <4>2
    <3> QED
      BY <3>1, <3>2
  <2> QED
    BY <2>5, <2>8 DEF StaffInv, OrganizerIsStaff
<1> QED
  BY <1>17, <1>18, <1>19, <1>20, <1>21, <1>22 DEF SiteInv

LEMMA CreateEventInMemoryKeeps ==
  ASSUME SiteInv, NEW r \in Request, CreateEventInMemory(r)
  PROVE  SiteInv'
<1>1. OnBoard(r, "profile of organizer") /\ Respond(r, "created") /\ seats' = seats
      /\ NewEvent(req[r].op.event, req[r].account, req[r].op.cap)
      /\ AddStaffRow(req[r].op.event, req[r].account, "organizer")
  BY DEF CreateEventInMemory
<1>2. SiteTypeOK /\ "profile of organizer" \in OnRoute /\ "created" \in Outcome
  BY DEF SiteInv, OnRoute, Outcome
<1>3. /\ req[r].pc = "profile of organizer" /\ req[r].pc \notin SignIn \cup {"idle"}
      /\ UNCHANGED <<store, now, valid, signedOut, cache, profiles, accounts, characters,
                     todo, failures, cut>>
  BY <1>1, <1>2, OnBoardFrame
<1>4. RouteStep(r) /\ Leaves(r) /\ Told(r, {"created"})
  BY <1>1, <1>2, <1>3, AnswerRoutes
<1> QED
  BY <1>1, <1>3, <1>4, NewEventKeeps

LEMMA InsertEventKeeps ==
  ASSUME SiteInv, NEW r \in Request, InsertEvent(r)
  PROVE  SiteInv'
<1>1. OnBoard(r, "insert event") /\ Goto(r, "insert organizer") /\ Silent
      /\ NewEvent(req[r].op.event, req[r].account, req[r].op.cap)
      /\ UNCHANGED <<seats, staff>>
  BY DEF InsertEvent, Silent
<1>2. SiteTypeOK /\ SignInInv /\ "insert event" \in OnRoute /\ "insert organizer" \in OnRoute
  BY DEF SiteInv, OnRoute
<1>3. /\ req[r].pc = "insert event" /\ req[r].pc \notin SignIn \cup {"idle"}
      /\ UNCHANGED <<store, now, valid, signedOut, cache, profiles, accounts, characters,
                     todo, failures, cut>>
  BY <1>1, <1>2, OnBoardFrame
<1>4. req[r].op.kind = "create"
  BY <1>2, <1>3, Kinds
<1>5. "insert organizer" \in Steps["create"]
  BY DEF Steps
<1>6. RouteStep(r) /\ Goes(r, "insert organizer")
  BY <1>1, <1>2, <1>3, <1>4, <1>5, GotoRoutes
<1> QED
  BY <1>1, <1>3, <1>6, NewEventKeeps

-----------------------------------------------------------------------------
(* Designating staff. *)

\* A route of the board that ends here and writes neither events nor seats.
LEMMA BoardAnswer ==
  ASSUME SiteInv, NEW r \in Request, RouteStep(r), Leaves(r), SeatsTold,
         UNCHANGED <<characters, failures, cut, events, seats>>, BoardTypeOK'
  PROVE  /\ SiteTypeOK' /\ OneAccountPerUser' /\ SignInInv' /\ CacheInv' /\ SentOnce'
         /\ Numbered' /\ NameInv' /\ EventInv' /\ SeatInv' /\ CapInv' /\ AnsweredSeat'
<1>1. req'[r] = Idle /\ req'[r].pc = "idle" /\ Others(r) /\ req[r] \in Busy
      /\ req' \in [Request -> {Idle} \cup Busy]
  BY IdlePc DEF Leaves, RouteStep
<1>2. characters' = characters /\ UNCHANGED <<failures, cut>> /\ events' = events /\ seats' = seats
      /\ todo' = todo
  BY DEF RouteStep
<1>3. /\ SiteTypeOK' /\ OneAccountPerUser' /\ SignInInv' /\ CacheInv' /\ SentOnce'
      /\ Numbered' /\ NameInv'
  BY <1>1, <1>2, BoardRequests
<1>4. r \in InFlight
  <2>1. req[r].pc # "idle"
    BY <1>1 DEF Busy, SignIn, OnRoute
  <2> QED
    BY <2>1, Here DEF SiteInv
<1>5. Avoids(r, {"insert organizer"}) /\ Avoids(r, {"pick", "insert seat"})
  BY <1>1 DEF Avoids
<1>6. EventInv'
  BY <1>1, <1>2, <1>4, <1>5, EventKept DEF SiteInv
<1>7. SeatInv'
  <2>1. \A e : Exists(e) => Exists(e)'
    BY <1>2 DEF Exists
  <2> QED
    BY <1>1, <1>2, <2>1, SeatKept DEF SiteInv
<1>8. CapInv'
  BY <1>2, <1>5, AvoidsEntering, CapKept
<1>9. AnsweredSeat'
  BY <1>2, AnsweredKept DEF SiteInv
<1> QED
  BY <1>3, <1>6, <1>7, <1>8, <1>9

\* The second insert: the event is staffed, whoever else is due.
LEMMA InsertOrganizerKeeps ==
  ASSUME SiteInv, NEW r \in Request, InsertOrganizer(r)
  PROVE  SiteInv'
<1> DEFINE e == req[r].op.event
           a == req[r].account
           badge == [event |-> e, account |-> a, role |-> "organizer"]
<1>1. OnBoard(r, "insert organizer") /\ Respond(r, "created") /\ staff' = staff \cup {badge}
      /\ events' = events /\ seats' = seats
  BY DEF InsertOrganizer, AddStaffRow
<1>2. SiteTypeOK /\ SignInInv /\ "insert organizer" \in OnRoute /\ "created" \in Outcome
  BY DEF SiteInv, OnRoute, Outcome
<1>3. /\ req[r].pc = "insert organizer" /\ req[r].pc \notin SignIn \cup {"idle"}
      /\ UNCHANGED <<store, now, valid, signedOut, cache, profiles, accounts, characters,
                     todo, failures, cut>>
      /\ r \in InFlight /\ req[r].op \in Operation
  BY <1>1, <1>2, OnBoardFrame
<1>4. req[r].op.kind = "create" /\ a \in Slug
  BY <1>2, <1>3, Kinds
<1>5. e \in Event
  BY <1>3, <1>4, Fields
<1>6. RouteStep(r) /\ Leaves(r) /\ Told(r, {"created"})
  BY <1>1, <1>2, <1>3, AnswerRoutes
<1>7. events[e] = [organizer |-> a, cap |-> req[r].op.cap]
  BY <1>3, <1>4 DEF SiteInv, EventInv
<1>8. events[e].organizer = a /\ Exists(e)
  BY <1>4, <1>5, <1>7, Assumption DEF Exists, NoRow
<1> HIDE DEF e, a
<1>9. BoardTypeOK'
  <2>1. badge \in [event: Event, account: Slug, role: {"organizer", "referee"}]
    BY <1>4, <1>5
  <2>2. BoardTypeOK
    BY <1>2 DEF SiteTypeOK
  <2> QED
    BY <1>1, <2>1, <2>2 DEF BoardTypeOK
<1>10. SeatsTold
  BY <1>6 DEF SeatsTold, Told
<1>11. /\ SiteTypeOK' /\ OneAccountPerUser' /\ SignInInv' /\ CacheInv' /\ SentOnce'
       /\ Numbered' /\ NameInv' /\ EventInv' /\ SeatInv' /\ CapInv' /\ AnsweredSeat'
  BY <1>1, <1>3, <1>6, <1>9, <1>10, BoardAnswer
<1>12. StaffInv'
  <2>1. Unstaffed \subseteq Due \cup cut /\ cut' = cut
    BY <1>3 DEF SiteInv, StaffInv, OrganizerIsStaff
  <2>2. \A x : Exists(x)' <=> Exists(x)
    BY <1>1 DEF Exists
  <2>3. Unstaffed' \subseteq Unstaffed \ {e}
    <3>1. badge \in staff' /\ staff \subseteq staff'
      BY <1>1
    <3> QED
      BY <1>1, <1>8, <2>2, <3>1 DEF Unstaffed
  <2>4. Due \subseteq Due' \cup {e}
    <3>1. \A q \in Request : q # r => req'[q] = req[q]
      BY <1>6 DEF Leaves, Others
    <3> QED
      BY <3>1 DEF Due, e
  <2>5. Unstaffed' \subseteq Due' \cup cut'
    BY <2>1, <2>3, <2>4
  <2>8. ASSUME NEW y \in answers', y.op.kind = "create", y.outcome = "created"
        PROVE  Exists(y.op.event)' /\ y.op.event \notin Unstaffed'
    <3>1. CASE y \in answers
      <4>1. Exists(y.op.event) /\ y.op.event \notin Unstaffed
        BY <2>8, <3>1 DEF SiteInv, StaffInv, OrganizerIsStaff
      <4> QED
        BY <2>2, <2>3, <4>1
    <3>2. CASE y \notin answers
      <4>1. y.op.event = e
        BY <1>6, <3>2 DEF Told, e
      <4> QED
        BY <1>8, <2>2, <2>3, <4>1
    <3> QED
      BY <3>1, <3>2
  <2> QED
    BY <2>5, <2>8 DEF StaffInv, OrganizerIsStaff
<1> QED
  BY <1>11, <1>12 DEF SiteInv

\* A row for a member of the staff takes nothing from anybody.
LEMMA StaffRowKeeps ==
  ASSUME SiteInv, NEW r \in Request, req[r].pc \in {"event", "insert staff"},
         NEW a \in Slug, NEW role \in Role, AddStaffRow(req[r].op.event, a, role),
         Exists(req[r].op.event), Respond(r, "ok"),
         UNCHANGED <<store, now, valid, signedOut, cache, profiles, accounts, characters,
                     todo, failures, cut>>,
         events' = events, seats' = seats
  PROVE  SiteInv'
<1> DEFINE row == [event |-> req[r].op.event, account |-> a, role |-> role]
<1>1. staff' = staff \cup {row}
  BY DEF AddStaffRow
<1>2. SiteTypeOK /\ SignInInv /\ "ok" \in Outcome /\ req[r].pc \notin SignIn \cup {"idle"}
  BY DEF SiteInv, Outcome, SignIn
<1>3. RouteStep(r) /\ Leaves(r) /\ Told(r, {"ok"})
  BY <1>2, AnswerRoutes
<1>4. req[r].op.kind = "staff"
  BY <1>2, Kinds
<1>5. answers' \subseteq answers
  BY <1>3, <1>4 DEF Told
<1>6. SeatsTold /\ NoneCreated
  BY <1>5 DEF SeatsTold, NoneCreated
<1>7. BoardTypeOK'
  <2>1. row \in [event: Event, account: Slug, role: {"organizer", "referee"}]
    BY DEF Exists, Role
  <2>2. BoardTypeOK
    BY <1>2 DEF SiteTypeOK
  <2> HIDE DEF row
  <2> QED
    BY <1>1, <2>1, <2>2 DEF BoardTypeOK
<1>8. /\ SiteTypeOK' /\ OneAccountPerUser' /\ SignInInv' /\ CacheInv' /\ SentOnce'
      /\ Numbered' /\ NameInv' /\ EventInv' /\ SeatInv' /\ CapInv' /\ AnsweredSeat'
  BY <1>3, <1>6, <1>7, BoardAnswer
<1>9. cut \subseteq cut'
  OBVIOUS
<1>10. Due \subseteq Due'
  BY <1>3, DueKept DEF Leaves
<1>11. staff \subseteq staff'
  BY <1>1
<1>12. StaffInv'
  BY <1>6, <1>9, <1>10, <1>11, StaffKept DEF SiteInv
<1> QED
  BY <1>8, <1>12 DEF SiteInv

\* A handler that goes on to write, for an event that is there.
LEMMA OnwardKeeps ==
  ASSUME SiteInv, NEW r \in Request, RouteStep(r), Silent,
         NEW pc \in {"pick", "insert seat", "insert staff"}, Goes(r, pc),
         req[r].pc # "insert organizer", UNCHANGED <<characters, failures, cut>>,
         UNCHANGED boardVars, Exists(req[r].op.event), CapInv',
         pc = "insert seat" => Owns(req'[r].account, req'[r].char)
  PROVE  SiteInv'
<1>1. /\ req'[r].pc = pc /\ Others(r) /\ req[r] \in Busy /\ req'[r] \in Busy
      /\ req' \in [Request -> {Idle} \cup Busy] /\ req'[r].op = req[r].op
  BY DEF Goes, RouteStep
<1>2. events' = events /\ seats' = seats /\ staff' = staff /\ characters' = characters
      /\ UNCHANGED <<failures, cut>> /\ todo' = todo
  BY DEF RouteStep, boardVars
<1>3. /\ SiteTypeOK' /\ OneAccountPerUser' /\ SignInInv' /\ CacheInv' /\ SentOnce'
      /\ Numbered' /\ NameInv'
  <2>1. BoardTypeOK'
    BY <1>2 DEF SiteInv, SiteTypeOK, BoardTypeOK
  <2> QED
    BY <1>1, <1>2, <2>1, BoardRequests
<1>4. r \in InFlight
  <2>1. req[r].pc # "idle"
    BY <1>1 DEF Busy, SignIn, OnRoute
  <2> QED
    BY <2>1, Here DEF SiteInv
<1>5. EventInv'
  <2>1. Avoids(r, {"insert organizer"})
    BY <1>1 DEF Avoids
  <2> QED
    BY <1>2, <1>4, <2>1, EventKept DEF SiteInv
<1>6. SeatInv'
  <2>1. \A e : Exists(e) => Exists(e)'
    BY <1>2 DEF Exists
  <2> QED
    BY <1>1, <1>2, <2>1, SeatKept DEF SiteInv
<1>7. SeatsTold /\ NoneCreated
  BY DEF Silent, SeatsTold, NoneCreated
<1>8. AnsweredSeat'
  BY <1>2, <1>7, AnsweredKept DEF SiteInv
<1>9. StaffInv'
  <2>1. cut \subseteq cut'
    OBVIOUS
  <2>2. Due \subseteq Due'
    BY <1>1, DueKept
  <2> QED
    BY <1>2, <1>7, <2>1, <2>2, StaffKept DEF SiteInv
<1> QED
  BY <1>3, <1>5, <1>6, <1>8, <1>9 DEF SiteInv

LEMMA AddStaffInMemoryKeeps ==
  ASSUME SiteInv, NEW r \in Request, AddStaffInMemory(r)
  PROVE  SiteInv'
<1>1. OnBoard(r, "event") /\ events' = events /\ seats' = seats
  BY DEF AddStaffInMemory
<1>2. SiteTypeOK /\ "event" \in OnRoute
      /\ {"no_event", "not_organizer", "no_character"}
           \subseteq Outcome \ {"ok", "duplicate", "registered", "created"}
  BY DEF SiteInv, OnRoute, Outcome
<1>3. /\ req[r].pc = "event" /\ req[r].pc \notin SignIn \cup {"idle", "insert organizer"}
      /\ UNCHANGED <<store, now, valid, signedOut, cache, profiles, accounts, characters,
                     todo, failures, cut>>
  BY <1>1, <1>2, OnBoardFrame
<1>4. CASE /\ \E o \in {"no_event", "not_organizer", "no_character"} : Respond(r, o)
           /\ staff' = staff
  <2>1. UNCHANGED boardVars
    BY <1>1, <1>4 DEF boardVars
  <2>2. PICK o \in {"no_event", "not_organizer", "no_character"} : Respond(r, o)
    BY <1>4
  <2> QED
    BY <1>2, <1>3, <2>1, <2>2, RefuseKeeps
<1>5. CASE /\ Exists(req[r].op.event) /\ Respond(r, "ok")
           /\ \E a \in Designated, role \in Role : AddStaffRow(req[r].op.event, a, role)
  <2>1. PICK a \in Designated, role \in Role : AddStaffRow(req[r].op.event, a, role)
    BY <1>5
  <2>2. a \in Slug
    BY <1>2 DEF Designated, SiteTypeOK, AccTypeOK
  <2> QED
    BY <1>1, <1>3, <1>5, <2>1, <2>2, StaffRowKeeps
<1> QED
  BY <1>4, <1>5 DEF AddStaffInMemory, MayDesignate

LEMMA CheckStaffKeeps ==
  ASSUME SiteInv, NEW r \in Request, CheckStaff(r)
  PROVE  SiteInv'
<1>1. OnBoard(r, "event") /\ UNCHANGED boardVars
  BY DEF CheckStaff
<1>2. SiteTypeOK /\ SignInInv /\ "event" \in OnRoute
      /\ {"no_event", "not_organizer", "no_character"}
           \subseteq Outcome \ {"ok", "duplicate", "registered", "created"}
  BY DEF SiteInv, OnRoute, Outcome
<1>3. /\ req[r].pc = "event" /\ req[r].pc \notin SignIn \cup {"idle", "insert organizer"}
      /\ UNCHANGED <<store, now, valid, signedOut, cache, profiles, accounts, characters,
                     todo, failures, cut>>
      /\ req[r] \in Busy
  BY <1>1, <1>2, OnBoardFrame
<1>4. CASE \E o \in {"no_event", "not_organizer", "no_character"} : Respond(r, o)
  BY <1>1, <1>2, <1>3, <1>4, RefuseKeeps
<1>5. CASE /\ Exists(req[r].op.event) /\ answers' = answers
           /\ \E a \in Designated : CharactersOf(a) # {} /\
                req' = [req EXCEPT ![r].pc = "insert staff",
                                   ![r].char = CHOOSE c \in CharactersOf(a) : TRUE]
  <2>1. PICK a \in Designated : CharactersOf(a) # {} /\
                req' = [req EXCEPT ![r].pc = "insert staff",
                                   ![r].char = CHOOSE c \in CharactersOf(a) : TRUE]
    BY <1>5
  <2> DEFINE k == CHOOSE c \in CharactersOf(a) : TRUE
             x == [req[r] EXCEPT !.pc = "insert staff", !.char = k]
  <2>2. k \in CharactersOf(a)
    BY <2>1
  <2>3. k \in Nat
    BY <1>2, <2>2 DEF CharactersOf, SiteTypeOK, AccTypeOK, Character
  <2>4. req' = [req EXCEPT ![r] = x]
    BY <2>1
  <2> HIDE DEF k
  <2>5. x \in Busy /\ x.op = req[r].op /\ x.account = req[r].account /\ x.at = req[r].at
        /\ x.pc = "insert staff"
    BY <1>3, <2>3 DEF Busy, OnRoute
  <2> HIDE DEF x
  <2>6. req' \in [Request -> {Idle} \cup Busy] /\ req'[r] = x /\ Others(r)
    BY <1>2, <2>4, <2>5, Becomes
  <2>7. Goes(r, "insert staff") /\ Silent
    BY <1>5, <2>5, <2>6 DEF Goes, Silent
  <2>8. RouteStep(r)
    <3>1. req[r].op.kind = "staff" /\ "insert staff" \in Steps["staff"]
      BY <1>2, <1>3, Kinds DEF Steps
    <3> QED
      BY <1>3, <2>7, <3>1 DEF RouteStep
  <2>9. CapInv'
    <3>1. events' = events /\ seats' = seats
      BY <1>1 DEF boardVars
    <3>2. Avoids(r, {"pick", "insert seat"})
      BY <1>3, <2>7 DEF Goes, Avoids
    <3> QED
      BY <3>1, <3>2, AvoidsEntering, CapKept
  <2> QED
    BY <1>1, <1>3, <1>5, <2>7, <2>8, <2>9, OnwardKeeps
<1> QED
  BY <1>4, <1>5 DEF CheckStaff, MayDesignate

LEMMA InsertStaffKeeps ==
  ASSUME SiteInv, NEW r \in Request, InsertStaff(r)
  PROVE  SiteInv'
<1>1. OnBoard(r, "insert staff") /\ events' = events /\ seats' = seats /\ Respond(r, "ok")
  BY DEF InsertStaff
<1>2. SiteTypeOK /\ "insert staff" \in OnRoute
  BY DEF SiteInv, OnRoute
<1>3. /\ req[r].pc = "insert staff"
      /\ UNCHANGED <<store, now, valid, signedOut, cache, profiles, accounts, characters,
                     todo, failures, cut>>
  BY <1>1, <1>2, OnBoardFrame
<1>4. Exists(req[r].op.event)
  BY <1>3 DEF SiteInv, EventInv
<1>5. PICK c \in characters, role \in Role : AddStaffRow(req[r].op.event, c.account, role)
  BY DEF InsertStaff
<1>6. c.account \in Slug
  BY <1>2 DEF SiteTypeOK, AccTypeOK, Character
<1> QED
  BY <1>1, <1>3, <1>4, <1>5, <1>6, StaffRowKeeps

-----------------------------------------------------------------------------
(* Signing up. *)

LEMMA SeatSums ==
  ASSUME NEW s \in Nat, NEW u \in Nat, NEW v \in Nat, NEW c \in Nat, NEW n \in Nat \ {0}
  PROVE  /\ v <= u - 1 /\ s + u <= c + n - 1 => (s + 1) + v <= c + n - 1
         /\ s < c /\ v <= n - 1 => (s + 1) + v <= c + n - 1
         /\ s < c /\ v <= n => s + v <= c + n - 1
OBVIOUS

LEMMA SeatAnswered ==
  ASSUME AnsweredSeat, NEW s, seats' = seats \cup {s}, ~Registered(s.event, s.account),
         \A x \in answers' : x \in answers \/ (x.op.event = s.event /\ x.account = s.account)
  PROVE  AnsweredSeat'
<1>1. ASSUME NEW x, NEW t \in SeatsOf(x)', NEW u \in SeatsOf(x)', x \in Event,
             t.account = u.account
      PROVE  t = u
  <2>1. \A y, z \in SeatsOf(x) : y.account = z.account => y = z
    BY <1>1 DEF AnsweredSeat
  <2>2. x = s.event => \A y \in SeatsOf(x) : y.account # s.account
    BY DEF Registered
  <2>3. (t \in SeatsOf(x) \/ (t = s /\ x = s.event)) /\ (u \in SeatsOf(x) \/ (u = s /\ x = s.event))
    BY <1>1 DEF SeatsOf
  <2> QED
    BY <1>1, <2>1, <2>2, <2>3
<1>2. \A x, y : Registered(x, y) => Registered(x, y)'
  BY DEF Registered, SeatsOf
<1>3. Registered(s.event, s.account)'
  BY DEF Registered, SeatsOf
<1>4. ASSUME NEW x \in answers', x.outcome \in {"ok", "duplicate", "registered"}
      PROVE  Registered(x.op.event, x.account)'
  <2>1. CASE x \in answers
    <3>1. Registered(x.op.event, x.account)
      BY <1>4, <2>1 DEF AnsweredSeat
    <3> QED
      BY <3>1, <1>2
  <2>2. CASE x.op.event = s.event /\ x.account = s.account
    BY <1>3, <2>2
  <2> QED
    BY <2>1, <2>2
<1> QED
  BY <1>1, <1>4 DEF AnsweredSeat

\* An account is told "ok" or "duplicate" because it has its seat.
LEMMA SeatedRoute ==
  ASSUME SiteInv, NEW r \in Request, req[r].pc \in {"count", "pick", "insert seat"},
         NEW o \in {"ok", "duplicate"}, Respond(r, o),
         Registered(req[r].op.event, req[r].account),
         UNCHANGED <<store, now, valid, signedOut, cache, profiles, accounts, characters,
                     todo, failures, cut>>,
         UNCHANGED boardVars
  PROVE  SiteInv'
<1>1. SiteTypeOK /\ o \in Outcome /\ req[r].pc \notin SignIn \cup {"idle"}
      /\ req[r].pc # "insert organizer"
  BY DEF SiteInv, Outcome, SignIn
<1>2. /\ RouteStep(r) /\ Leaves(r) /\ Told(r, {o})
      /\ req'[r].pc \notin {"insert", "insert organizer", "pick", "insert seat", "insert staff"}
  BY <1>1, AnswerRoutes
<1>3. Truthful
  BY <1>2 DEF Truthful, SeatsTold, NoneCreated, Told
<1> QED
  BY <1>1, <1>2, <1>3, QuietRoute

\* A seat is taken either at once, of an event that is not full, or by a
\* request that was counted among those entering.
LEMMA SeatTaken ==
  ASSUME SiteInv, NEW r \in Request, req[r].pc \in {"count", "pick", "insert seat"},
         NEW c, TakeSeat(r, c), Respond(r, "ok"),
         Exists(req[r].op.event), ~Registered(req[r].op.event, req[r].account),
         Owns(req[r].account, c),
         req[r].pc = "count" => ~Full(req[r].op.event),
         UNCHANGED <<store, now, valid, signedOut, cache, profiles, accounts, characters,
                     todo, failures, cut>>,
         events' = events, staff' = staff
  PROVE  SiteInv'
<1> DEFINE e == req[r].op.event
           a == req[r].account
           s == [event |-> e, account |-> a, char |-> c]
<1>1. SiteTypeOK /\ SignInInv /\ "ok" \in Outcome /\ req[r].pc \notin SignIn \cup {"idle"}
  BY DEF SiteInv, Outcome, SignIn
<1>2. RouteStep(r) /\ Leaves(r) /\ Told(r, {"ok"})
  BY <1>1, AnswerRoutes
<1>3. req[r].op.kind = "signup" /\ a \in Slug /\ req[r] \in Busy /\ r \in InFlight
  BY <1>1, Kinds, Here
<1>4. e \in Event /\ c \in Nat
  BY <1>1 DEF Exists, Owns, SiteTypeOK, AccTypeOK, Character
<1>5. seats' = seats \cup {s} /\ s \notin seats
  <2>1. s.event = e /\ s.account = a
    OBVIOUS
  <2>2. seats' = seats \cup {s}
    BY DEF TakeSeat
  <2>3. \A t \in seats : ~(t.event = e /\ t.account = a)
    BY DEF Registered, SeatsOf
  <2> QED
    BY <2>1, <2>2, <2>3
<1>6. s \in [event: Event, account: Slug, char: Nat] /\ s.event = e /\ s.account = a /\ s.char = c
  BY <1>3, <1>4
<1>7. Exists(e) /\ Owns(a, c) /\ \A t \in SeatsOf(e) : t.account # a
  BY DEF Registered
<1>8. req[r].pc \in {"pick", "insert seat"} => r \in Entering(e)
  BY DEF Entering
<1>9. req[r].pc = "count" => Cardinality(SeatsOf(e)) < events[e].cap
  <2>1. Cardinality(SeatsOf(e)) \in Nat /\ events[e].cap \in Nat
    BY <1>1, <1>4, Counted DEF SiteTypeOK, BoardTypeOK
  <2> QED
    BY <2>1 DEF Full
<1>10. \A x \in answers' : x \in answers \/ (x.op.event = e /\ x.account = a /\ x.outcome = "ok")
  BY <1>2 DEF Told
<1> HIDE DEF e, a, s
<1>11. req'[r] = Idle /\ req'[r].pc = "idle" /\ Others(r)
       /\ req' \in [Request -> {Idle} \cup Busy]
  BY <1>2, IdlePc DEF Leaves
<1>12. characters' = characters /\ UNCHANGED <<failures, cut>> /\ todo' = todo /\ events' = events
  OBVIOUS
<1>13. BoardTypeOK'
  <2>1. BoardTypeOK
    BY <1>1 DEF SiteTypeOK
  <2> QED
    BY <1>5, <1>6, <2>1 DEF BoardTypeOK
<1>14. /\ SiteTypeOK' /\ OneAccountPerUser' /\ SignInInv' /\ CacheInv' /\ SentOnce'
       /\ Numbered' /\ NameInv'
  BY <1>2, <1>11, <1>12, <1>13, BoardRequests
<1>15. Avoids(r, {"insert organizer"}) /\ Avoids(r, {"pick", "insert seat"})
  BY <1>3, <1>11 DEF Avoids
<1>16. EventInv'
  BY <1>3, <1>11, <1>12, <1>15, EventKept DEF SiteInv
<1>17. \A x : Exists(x)' <=> Exists(x)
  BY <1>12 DEF Exists
<1>18. SeatInv'
  <2>1. SeatInv
    BY DEF SiteInv
  <2>2. IsFiniteSet(seats')
    BY <1>5, <2>1, FS_AddElement DEF SeatInv
  <2>3. \A x, y : Owns(x, y)' <=> Owns(x, y)
    BY <1>12 DEF Owns
  <2>4. \A t \in seats' : Exists(t.event) /\ Owns(t.account, t.char)
    BY <1>5, <1>6, <1>7, <2>1 DEF SeatInv
  <2>5. \A q \in Request : req'[q].pc = "insert seat" => q # r /\ req'[q] = req[q]
    BY <1>11 DEF Others
  <2>6. \A q \in Request : req'[q].pc = "insert seat" => Owns(req'[q].account, req'[q].char)
    BY <2>1, <2>5 DEF SeatInv
  <2>7. \A t \in seats' : Exists(t.event)' /\ Owns(t.account, t.char)'
    BY <1>17, <2>3, <2>4
  <2>8. ASSUME NEW q \in Request, req'[q].pc = "insert seat"
        PROVE  Owns(req[q].account, req[q].char)'
    <3>1. Owns(req'[q].account, req'[q].char)
      BY <2>6, <2>8
    <3> QED
      BY <1>12, <3>1 DEF Owns
  <2> QED
    BY <2>2, <2>7, <2>8 DEF SeatInv
<1>19. CapInv'
  <2> SUFFICES ASSUME NEW x \in Event, Exists(x)'
               PROVE  Cardinality(SeatsOf(x)') + Cardinality(Entering(x)')
                        <= events'[x].cap + Cardinality(Request) - 1
    BY DEF CapInv
  <2>1. \A q \in Request : req'[q].pc \in {"pick", "insert seat"} => q # r /\ req'[q] = req[q]
    BY <1>11 DEF Others
  <2>2. Entering(x)' \in SUBSET (Entering(x) \ {r}) /\ Entering(x)' \in SUBSET (Request \ {r})
    BY <2>1 DEF Entering
  <2>3. /\ IsFiniteSet(SeatsOf(x)) /\ Cardinality(SeatsOf(x)) \in Nat
        /\ IsFiniteSet(Entering(x)) /\ Cardinality(Entering(x)) \in Nat
        /\ IsFiniteSet(Request) /\ Cardinality(Request) \in Nat \ {0}
    BY Counted, Assumption
  <2>4. /\ IsFiniteSet(Entering(x) \ {r}) /\ Cardinality(Entering(x) \ {r}) \in Nat
        /\ Cardinality(Entering(x) \ {r}) =
             IF r \in Entering(x) THEN Cardinality(Entering(x)) - 1 ELSE Cardinality(Entering(x))
    BY <2>3, FS_RemoveElement, FS_CardinalityType
  <2>5. /\ IsFiniteSet(Request \ {r}) /\ Cardinality(Request \ {r}) = Cardinality(Request) - 1
    BY <2>3, FS_RemoveElement
  <2>6. /\ Cardinality(Entering(x)') \in Nat
        /\ Cardinality(Entering(x)') <= Cardinality(Entering(x) \ {r})
        /\ Cardinality(Entering(x)') <= Cardinality(Request \ {r})
    BY <2>2, <2>4, <2>5, FS_Subset, FS_CardinalityType
  <2>7. events[x].cap \in Nat /\ events'[x].cap = events[x].cap
    BY <1>1, <1>12 DEF SiteTypeOK, BoardTypeOK
  <2>8. Cardinality(SeatsOf(x)) + Cardinality(Entering(x)) <= events[x].cap + Cardinality(Request) - 1
    BY <1>17 DEF SiteInv, CapInv
  <2> DEFINE S == Cardinality(SeatsOf(x))
             T == Cardinality(Entering(x))
             U == Cardinality(Entering(x)')
             k == events[x].cap
             n == Cardinality(Request)
  <2>9. CASE x # e
    <3>1. SeatsOf(x)' = SeatsOf(x)
      BY <1>5, <1>6, <2>9 DEF SeatsOf
    <3>2. S \in Nat /\ T \in Nat /\ U \in Nat /\ k \in Nat /\ n \in Nat \ {0}
          /\ S + T <= k + n - 1
      BY <2>3, <2>6, <2>7, <2>8
    <3>3. U <= T
      <4>1. Entering(x)' \in SUBSET Entering(x)
        BY <2>2
      <4> QED
        BY <2>3, <4>1, FS_Subset
    <3>4. Cardinality(SeatsOf(x)') = S
      BY <3>1
    <3> HIDE DEF S, T, U, k, n
    <3>5. S + U <= k + n - 1
      BY <3>2, <3>3, Fits
    <3> QED
      BY <2>7, <3>4, <3>5 DEF U, k, n
  <2>10. CASE x = e
    <3>1. SeatsOf(x)' = SeatsOf(x) \cup {s} /\ s \notin SeatsOf(x)
      BY <1>5, <1>6, <2>10 DEF SeatsOf
    <3>2. Cardinality(SeatsOf(x)') = S + 1
      BY <2>3, <3>1, FS_AddElement
    <3>3. S \in Nat /\ T \in Nat /\ U \in Nat /\ k \in Nat /\ n \in Nat \ {0}
          /\ S + T <= k + n - 1 /\ U <= n - 1
      BY <2>3, <2>5, <2>6, <2>7, <2>8
    <3>4. CASE req[r].pc \in {"pick", "insert seat"}
      <4>1. U <= T - 1
        BY <1>8, <2>4, <2>6, <2>10, <3>4
      <4> HIDE DEF S, T, U, k, n
      <4>2. (S + 1) + U <= k + n - 1
        BY <3>3, <4>1, SeatSums
      <4> QED
        BY <2>7, <3>2, <4>2 DEF U, k, n
    <3>5. CASE req[r].pc = "count"
      <4>1. S < k
        BY <1>9, <2>10, <3>5
      <4> HIDE DEF S, T, U, k, n
      <4>2. (S + 1) + U <= k + n - 1
        BY <3>3, <4>1, SeatSums
      <4> QED
        BY <2>7, <3>2, <4>2 DEF U, k, n
    <3> QED
      BY <3>4, <3>5
  <2> QED
    BY <2>9, <2>10
<1>20. AnsweredSeat'
  <2>1. AnsweredSeat /\ ~Registered(s.event, s.account)
    BY <1>6, <1>7 DEF SiteInv, Registered
  <2>2. \A x \in answers' : x \in answers \/ (x.op.event = s.event /\ x.account = s.account)
    BY <1>6, <1>10
  <2> QED
    BY <1>5, <2>1, <2>2, SeatAnswered
<1>21. StaffInv'
  <2>1. cut \subseteq cut'
    OBVIOUS
  <2>2. Due \subseteq Due'
    BY <1>11, DueKept
  <2>3. NoneCreated
    BY <1>10 DEF NoneCreated
  <2> QED
    BY <1>12, <2>1, <2>2, <2>3, StaffKept DEF SiteInv
<1> QED
  BY <1>14, <1>16, <1>18, <1>19, <1>20, <1>21 DEF SiteInv

\* A signup that has counted goes on with its character.
LEMMA EnterPick ==
  ASSUME SiteInv, NEW r \in Request, OnBoard(r, "count"), Goto(r, "pick"), Silent,
         UNCHANGED boardVars, Exists(req[r].op.event), ~Full(req[r].op.event)
  PROVE  SiteInv'
<1> DEFINE e == req[r].op.event
<1>1. SiteTypeOK /\ SignInInv /\ "count" \in OnRoute /\ "pick" \in OnRoute
      /\ "pick" \in Steps["signup"]
  BY DEF SiteInv, OnRoute, Steps
<1>2. /\ req[r].pc = "count" /\ req[r].pc \notin SignIn \cup {"idle", "insert organizer"}
      /\ UNCHANGED <<store, now, valid, signedOut, cache, profiles, accounts, characters,
                     todo, failures, cut>>
  BY <1>1, OnBoardFrame
<1>3. req[r].op.kind = "signup"
  BY <1>1, <1>2, Kinds
<1>4. RouteStep(r) /\ Goes(r, "pick")
  BY <1>1, <1>2, <1>3, GotoRoutes
<1>5. events' = events /\ seats' = seats
  BY DEF boardVars
<1>6. e \in Event /\ events[e].cap \in Nat /\ Cardinality(SeatsOf(e)) < events[e].cap
  <2>1. e \in Event
    BY DEF Exists
  <2>2. Cardinality(SeatsOf(e)) \in Nat /\ events[e].cap \in Nat
    BY <1>1, <2>1, Counted DEF SiteTypeOK, BoardTypeOK
  <2> QED
    BY <2>1, <2>2 DEF Full
<1>7. CapInv'
  <2> SUFFICES ASSUME NEW x \in Event, Exists(x)'
               PROVE  Cardinality(SeatsOf(x)') + Cardinality(Entering(x)')
                        <= events'[x].cap + Cardinality(Request) - 1
    BY DEF CapInv
  <2>1. Exists(x) /\ SeatsOf(x)' = SeatsOf(x) /\ events'[x].cap = events[x].cap
        /\ events[x].cap \in Nat
    BY <1>1, <1>5 DEF Exists, SeatsOf, SiteTypeOK, BoardTypeOK
  <2>2. \A q \in Request : q # r => req'[q] = req[q]
    BY <1>4 DEF Goes, Others
  <2>3. Entering(x)' \in SUBSET Request
    BY DEF Entering
  <2>4. /\ IsFiniteSet(Request) /\ Cardinality(Request) \in Nat \ {0}
        /\ Cardinality(SeatsOf(x)) \in Nat /\ Cardinality(Entering(x)) \in Nat
        /\ IsFiniteSet(Entering(x))
    BY Counted, Assumption
  <2>5. Cardinality(Entering(x)') \in Nat /\ Cardinality(Entering(x)') <= Cardinality(Request)
    BY <2>3, <2>4, FS_Subset, FS_CardinalityType
  <2>6. Cardinality(SeatsOf(x)) + Cardinality(Entering(x)) <= events[x].cap + Cardinality(Request) - 1
    BY <2>1 DEF SiteInv, CapInv
  <2> DEFINE S == Cardinality(SeatsOf(x))
             T == Cardinality(Entering(x))
             U == Cardinality(Entering(x)')
             k == events[x].cap
             n == Cardinality(Request)
  <2>7. S \in Nat /\ T \in Nat /\ U \in Nat /\ k \in Nat /\ n \in Nat \ {0}
        /\ S + T <= k + n - 1 /\ U <= n
    BY <2>1, <2>4, <2>5, <2>6
  <2>8. x = e => S < k
    BY <1>6
  <2>9. x # e => U <= T
    <3>1. ASSUME x # e PROVE Entering(x)' \in SUBSET Entering(x)
      <4>1. req'[r].op.event # x
        BY <1>4, <3>1 DEF Goes
      <4> QED
        BY <2>2, <4>1 DEF Entering
    <3> QED
      BY <2>4, <3>1, FS_Subset
  <2> HIDE DEF S, T, U, k, n
  <2>10. S + U <= k + n - 1
    BY <2>7, <2>8, <2>9, Fits, SeatSums
  <2> QED
    BY <2>1, <2>10 DEF S, U, k, n
<1> QED
  BY <1>2, <1>4, <1>7, OnwardKeeps

LEMMA SignupInMemoryKeeps ==
  ASSUME SiteInv, NEW r \in Request, SignupInMemory(r)
  PROVE  SiteInv'
<1>1. OnBoard(r, "count")
  BY DEF SignupInMemory
<1>2. SiteTypeOK /\ "count" \in OnRoute
      /\ {"closed", "full", "no_character"}
           \subseteq Outcome \ {"ok", "duplicate", "registered", "created"}
  BY DEF SiteInv, OnRoute, Outcome
<1>3. /\ req[r].pc = "count" /\ req[r].pc \notin SignIn \cup {"idle", "insert organizer"}
      /\ UNCHANGED <<store, now, valid, signedOut, cache, profiles, accounts, characters,
                     todo, failures, cut>>
  BY <1>1, <1>2, OnBoardFrame
<1>4. CASE (\E o \in {"closed", "full", "no_character"} : Respond(r, o)) /\ UNCHANGED boardVars
  BY <1>2, <1>3, <1>4, RefuseKeeps
<1>5. CASE /\ Registered(req[r].op.event, req[r].account) /\ Respond(r, "duplicate")
           /\ UNCHANGED boardVars
  BY <1>3, <1>5, SeatedRoute
<1>6. CASE /\ Exists(req[r].op.event) /\ ~Full(req[r].op.event)
           /\ Goto(r, "pick") /\ UNCHANGED <<answers, boardVars>>
  <2>1. Silent /\ UNCHANGED boardVars
    BY <1>6 DEF Silent
  <2> QED
    BY <1>1, <1>6, <2>1, EnterPick
<1>7. CASE /\ Exists(req[r].op.event) /\ ~Registered(req[r].op.event, req[r].account)
           /\ ~Full(req[r].op.event)
           /\ \E c \in CharactersOf(req[r].account) :
                TakeSeat(r, c) /\ Respond(r, "ok") /\ UNCHANGED <<events, staff>>
  <2>1. PICK c \in CharactersOf(req[r].account) :
          TakeSeat(r, c) /\ Respond(r, "ok") /\ UNCHANGED <<events, staff>>
    BY <1>7
  <2>2. Owns(req[r].account, c) /\ events' = events /\ staff' = staff
    BY <2>1 DEF CharactersOf, Owns
  <2> QED
    BY <1>3, <1>7, <2>1, <2>2, SeatTaken
<1> QED
  BY <1>4, <1>5, <1>6, <1>7 DEF SignupInMemory

LEMMA PickInMemoryKeeps ==
  ASSUME SiteInv, NEW r \in Request, PickInMemory(r)
  PROVE  SiteInv'
<1>1. OnBoard(r, "pick")
  BY DEF PickInMemory
<1>2. SiteTypeOK /\ "pick" \in OnRoute
      /\ "no_character" \in Outcome \ {"ok", "duplicate", "registered", "created"}
  BY DEF SiteInv, OnRoute, Outcome
<1>3. /\ req[r].pc = "pick" /\ req[r].pc \notin SignIn \cup {"idle", "insert organizer"}
      /\ UNCHANGED <<store, now, valid, signedOut, cache, profiles, accounts, characters,
                     todo, failures, cut>>
  BY <1>1, <1>2, OnBoardFrame
<1>4. Exists(req[r].op.event)
  BY <1>3 DEF SiteInv, EventInv
<1>5. CASE Respond(r, "no_character") /\ UNCHANGED boardVars
  BY <1>2, <1>3, <1>5, RefuseKeeps
<1>6. ASSUME NEW c \in characters, c.account = req[r].account,
             IF Registered(req[r].op.event, req[r].account) THEN UNCHANGED seats
             ELSE TakeSeat(r, c.id),
             Respond(r, "ok"), UNCHANGED <<events, staff>>
      PROVE  SiteInv'
  <2>1. events' = events /\ staff' = staff
    BY <1>6
  <2>2. CASE Registered(req[r].op.event, req[r].account)
    <3>1. UNCHANGED boardVars
      BY <1>6, <2>1, <2>2 DEF boardVars
    <3> QED
      BY <1>3, <1>6, <2>2, <3>1, SeatedRoute
  <2>3. CASE ~Registered(req[r].op.event, req[r].account)
    <3>1. TakeSeat(r, c.id) /\ Owns(req[r].account, c.id)
      BY <1>6, <2>3 DEF Owns
    <3> QED
      BY <1>3, <1>4, <1>6, <2>1, <2>3, <3>1, SeatTaken
  <2> QED
    BY <2>2, <2>3
<1> QED
  BY <1>5, <1>6 DEF PickInMemory

LEMMA CountSeatsKeeps ==
  ASSUME SiteInv, NEW r \in Request, CountSeats(r)
  PROVE  SiteInv'
<1>1. OnBoard(r, "count") /\ UNCHANGED boardVars
  BY DEF CountSeats
<1>2. SiteTypeOK /\ "count" \in OnRoute
      /\ {"closed", "full"} \subseteq Outcome \ {"ok", "duplicate", "registered", "created"}
  BY DEF SiteInv, OnRoute, Outcome
<1>3. /\ req[r].pc = "count" /\ req[r].pc \notin SignIn \cup {"idle", "insert organizer"}
      /\ UNCHANGED <<store, now, valid, signedOut, cache, profiles, accounts, characters,
                     todo, failures, cut>>
  BY <1>1, <1>2, OnBoardFrame
<1>4. CASE \E o \in {"closed", "full"} : Respond(r, o)
  BY <1>1, <1>2, <1>3, <1>4, RefuseKeeps
<1>5. CASE /\ Exists(req[r].op.event) /\ ~Full(req[r].op.event)
           /\ Goto(r, "pick") /\ UNCHANGED answers
  <2>1. Silent
    BY <1>5 DEF Silent
  <2> QED
    BY <1>1, <1>5, <2>1, EnterPick
<1> QED
  BY <1>4, <1>5 DEF CountSeats

LEMMA PickCharacterKeeps ==
  ASSUME SiteInv, NEW r \in Request, PickCharacter(r)
  PROVE  SiteInv'
<1>1. OnBoard(r, "pick") /\ UNCHANGED boardVars
  BY DEF PickCharacter
<1>2. SiteTypeOK /\ SignInInv /\ "pick" \in OnRoute /\ "insert seat" \in OnRoute
      /\ "no_character" \in Outcome \ {"ok", "duplicate", "registered", "created"}
  BY DEF SiteInv, OnRoute, Outcome
<1>3. /\ req[r].pc = "pick" /\ req[r].pc \notin SignIn \cup {"idle", "insert organizer"}
      /\ UNCHANGED <<store, now, valid, signedOut, cache, profiles, accounts, characters,
                     todo, failures, cut>>
      /\ req[r] \in Busy
  BY <1>1, <1>2, OnBoardFrame
<1>4. Exists(req[r].op.event)
  BY <1>3 DEF SiteInv, EventInv
<1>5. CASE Respond(r, "no_character")
  BY <1>1, <1>2, <1>3, <1>5, RefuseKeeps
<1>6. CASE /\ \E c \in CharactersOf(req[r].account) :
                req' = [req EXCEPT ![r].pc = "insert seat", ![r].char = c]
           /\ UNCHANGED answers
  <2>1. PICK c \in CharactersOf(req[r].account) :
          req' = [req EXCEPT ![r].pc = "insert seat", ![r].char = c]
    BY <1>6
  <2>2. c \in Nat /\ Owns(req[r].account, c)
    BY <1>2, <2>1 DEF CharactersOf, Owns, SiteTypeOK, AccTypeOK, Character
  <2> DEFINE x == [req[r] EXCEPT !.pc = "insert seat", !.char = c]
  <2>3. req' = [req EXCEPT ![r] = x]
    BY <2>1
  <2>4. x \in Busy /\ x.op = req[r].op /\ x.account = req[r].account /\ x.at = req[r].at
        /\ x.pc = "insert seat" /\ x.char = c
    BY <1>2, <1>3, <2>2 DEF Busy
  <2> HIDE DEF x
  <2>5. req' \in [Request -> {Idle} \cup Busy] /\ req'[r] = x /\ Others(r)
    BY <1>2, <2>3, <2>4, Becomes
  <2>6. Goes(r, "insert seat") /\ Silent /\ Owns(req'[r].account, req'[r].char)
    BY <1>6, <2>2, <2>4, <2>5 DEF Goes, Silent
  <2>7. RouteStep(r)
    <3>1. req[r].op.kind = "signup" /\ "insert seat" \in Steps["signup"]
      BY <1>2, <1>3, Kinds DEF Steps
    <3> QED
      BY <1>3, <2>6, <3>1 DEF RouteStep
  <2>8. CapInv'
    <3>1. events' = events /\ seats' = seats
      BY <1>1 DEF boardVars
    <3>2. \A y \in Event : Entering(y)' \subseteq Entering(y)
      <4>1. \A q \in Request : q # r => req'[q] = req[q]
        BY <2>6 DEF Goes, Others
      <4>2. req'[r].op = req[r].op /\ req[r].pc = "pick"
        BY <1>3, <2>6 DEF Goes
      <4> QED
        BY <4>1, <4>2 DEF Entering
    <3> QED
      BY <3>1, <3>2, CapKept
  <2> QED
    BY <1>1, <1>3, <1>4, <2>6, <2>7, <2>8, OnwardKeeps
<1> QED
  BY <1>5, <1>6 DEF PickCharacter

\* A seat that is taken, by account or by character, is the account's own:
\* characters are numbered apart and have one account.
LEMMA InsertSeatKeeps ==
  ASSUME SiteInv, NEW r \in Request, InsertSeat(r)
  PROVE  SiteInv'
<1>1. OnBoard(r, "insert seat") /\ events' = events /\ staff' = staff
  BY DEF InsertSeat
<1>2. SiteTypeOK /\ "insert seat" \in OnRoute
  BY DEF SiteInv, OnRoute
<1>3. /\ req[r].pc = "insert seat"
      /\ UNCHANGED <<store, now, valid, signedOut, cache, profiles, accounts, characters,
                     todo, failures, cut>>
  BY <1>1, <1>2, OnBoardFrame
<1>4. Exists(req[r].op.event) /\ Owns(req[r].account, req[r].char)
  BY <1>3 DEF SiteInv, EventInv, SeatInv
<1>5. ASSUME NEW s \in SeatsOf(req[r].op.event),
             s.account = req[r].account \/ s.char = req[r].char
      PROVE  Registered(req[r].op.event, req[r].account)
  <2>1. Owns(s.account, s.char)
    BY DEF SeatsOf, SiteInv, SeatInv
  <2>2. \A c, d \in characters : c.id = d.id => c = d
    BY DEF SiteInv, Numbered
  <2>3. s.char = req[r].char => s.account = req[r].account
    BY <1>4, <2>1, <2>2 DEF Owns
  <2> QED
    BY <1>5, <2>3 DEF Registered
<1>6. CASE /\ \E s \in SeatsOf(req[r].op.event) :
                s.account = req[r].account \/ s.char = req[r].char
           /\ Respond(r, "duplicate") /\ seats' = seats
  <2>1. UNCHANGED boardVars
    BY <1>1, <1>6 DEF boardVars
  <2>2. Registered(req[r].op.event, req[r].account)
    BY <1>5, <1>6
  <2> QED
    BY <1>3, <1>6, <2>1, <2>2, SeatedRoute
<1>7. CASE /\ ~\E s \in SeatsOf(req[r].op.event) :
                s.account = req[r].account \/ s.char = req[r].char
           /\ TakeSeat(r, req[r].char) /\ Respond(r, "ok")
  <2>1. ~Registered(req[r].op.event, req[r].account)
    BY <1>7 DEF Registered
  <2> QED
    BY <1>1, <1>3, <1>4, <1>7, <2>1, SeatTaken
<1> QED
  BY <1>6, <1>7 DEF InsertSeat

LEMMA ListEventsKeeps ==
  ASSUME SiteInv, NEW r \in Request, ListEvents(r)
  PROVE  SiteInv'
<1> DEFINE marks == Marks(req[r].op.event, req[r].account)
<1>1. OnBoard(r, "list") /\ Tell(r, marks) /\ UNCHANGED boardVars
  BY DEF ListEvents
<1>2. SiteTypeOK /\ "list" \in OnRoute
  BY DEF SiteInv, OnRoute
<1>3. /\ req[r].pc = "list"
      /\ UNCHANGED <<store, now, valid, signedOut, cache, profiles, accounts, characters,
                     todo, failures, cut>>
      /\ req[r] \in Busy /\ req[r].pc \notin SignIn
  BY <1>1, <1>2, OnBoardFrame
<1>4. marks \in SUBSET {"listed", "registered", "managedByMe"}
      /\ ("registered" \in marks => Registered(req[r].op.event, req[r].account))
  BY DEF Marks
<1>5. marks \in SUBSET Outcome
  BY <1>4 DEF Outcome
<1> HIDE DEF marks
<1>6. Leaves(r) /\ Told(r, marks) /\ Told(r, Outcome)
  <2>1. Leaves(r) /\ Told(r, marks)
    BY <1>1, <1>2, <1>3, <1>5, TellShape
  <2> QED
    BY <1>5, <2>1 DEF Told
<1>7. RouteStep(r)
  BY <1>3, <1>6 DEF RouteStep
<1>8. Truthful
  <2>1. SeatsTold
    <3> SUFFICES ASSUME NEW x \in answers', x \notin answers,
                        x.outcome \in {"ok", "duplicate", "registered"}
                 PROVE  Registered(x.op.event, x.account)
      BY DEF SeatsTold
    <3>1. x.op = req[r].op /\ x.account = req[r].account /\ x.outcome \in marks
      BY <1>6 DEF Told
    <3>2. x.outcome = "registered"
      BY <1>4, <3>1
    <3> QED
      BY <1>4, <3>1, <3>2
  <2>2. NoneCreated
    BY <1>4, <1>6 DEF NoneCreated, Told
  <2> QED
    BY <2>1, <2>2 DEF Truthful
<1>10. req'[r].pc = "idle"
  BY <1>6, IdlePc DEF Leaves
<1> QED
  BY <1>1, <1>3, <1>7, <1>8, <1>10, QuietRoute

-----------------------------------------------------------------------------
(***************************************************************************)
(* The invariant.                                                          *)
(***************************************************************************)

LEMMA OldAccounts ==
  ASSUME NEW u \in User
  PROVE  OldAccount(u) \in Slug
<1>1. Candidates[u] \in Seq(Slug) /\ Candidates[u] # <<>>
  BY Assumption
<1>2. Len(Candidates[u]) \in 1 .. Len(Candidates[u])
  BY <1>1
<1> QED
  BY <1>1, <1>2 DEF OldAccount

LEMMA SiteInitially ==
  ASSUME SiteInit
  PROVE  SiteInv
<1>1. PICK w \in Workload :
        /\ now = w.now /\ todo = w.todo /\ characters = w.characters
        /\ accounts = [u \in User |-> IF store = "memory" \/ u \in w.returning
                                      THEN OldAccount(u) ELSE NoSlug]
  BY DEF SiteInit, AccInit
<1>2. /\ valid = {op.session : op \in todo} /\ signedOut = [s \in Session |-> 0]
      /\ cache = [s \in Session |-> NoEntry] /\ profiles = {accounts[u] : u \in User} \ {NoSlug}
      /\ req = [r \in Request |-> Idle] /\ answers = {} /\ failures = 0 /\ cut = {}
      /\ store \in {"pg", "memory"}
  BY DEF SiteInit, AccInit
<1>3. events = [e \in Event |-> NoRow] /\ seats = {} /\ staff = {}
  BY DEF SiteInit, BoardInit
<1>4. /\ now \in 0 .. MaxTime /\ todo \subseteq Operation
      /\ characters \subseteq Character /\ IsFiniteSet(characters)
      /\ \A c \in characters : c.id <= Cardinality(characters)
      /\ \A c, d \in characters : c.id = d.id \/ c.name = d.name => c = d
  <2>1. Beginning(w)
    BY AccountsAssumption
  <2> QED
    BY <1>1, <2>1 DEF Beginning
<1>5. accounts \in [User -> Slug \cup {NoSlug}]
  BY <1>1, OldAccounts
<1>6. MaxTime \in Nat /\ MaxFail \in Nat
  BY Assumption
<1>7. \A r \in Request : req[r] = Idle /\ req[r].pc = "idle"
  BY <1>2, IdlePc
<1>8. InFlight = {}
  BY <1>7 DEF InFlight
<1>9. \A e : ~Exists(e)
  BY <1>3 DEF Exists
<1>10. SiteTypeOK
  <2>1. valid \subseteq Session
    BY <1>2, <1>4, Fields
  <2>2. signedOut \in [Session -> 0 .. MaxTime]
    BY <1>2, <1>6
  <2>3. cache \in [Session -> [until: Nat, account: Slug \cup {NoSlug}]]
    BY <1>2 DEF NoEntry
  <2>4. profiles \subseteq Slug
    BY <1>2, <1>5
  <2>5. req \in [Request -> {Idle} \cup Busy]
    BY <1>2
  <2>6. answers \subseteq Answer /\ failures \in 0 .. MaxFail /\ cut \subseteq Event
    BY <1>2, <1>6
  <2>7. AccTypeOK
    BY <1>2, <1>4, <1>5, <2>1, <2>2, <2>3, <2>4, <2>5, <2>6 DEF AccTypeOK
  <2>8. BoardTypeOK
    BY <1>3 DEF BoardTypeOK, NoRow
  <2> QED
    BY <2>7, <2>8 DEF SiteTypeOK
<1>11. OneAccountPerUser
  BY <1>2, <1>7 DEF OneAccountPerUser, NoEntry
<1>12. SignInInv /\ SentOnce
  BY <1>2, <1>8 DEF SignInInv, SentOnce
<1>13. CacheInv
  BY <1>2 DEF CacheInv, NoEntry
<1>14. Numbered
  BY <1>4 DEF Numbered
<1>15. NameInv
  <2> SUFFICES ASSUME NEW n \in Name
               PROVE  /\ store = "memory" => Inserting(n) = {} /\ Cardinality(Holders(n)) <= 1
                      /\ Holders(n) # {} =>
                           Cardinality(Holders(n)) + Cardinality(Inserting(n)) <= Cardinality(Request)
    BY DEF NameInv
  <2>1. Inserting(n) = {}
    BY <1>7 DEF Inserting
  <2>2. Cardinality(Inserting(n)) = 0
    BY <2>1, FS_EmptySet
  <2>3. Holders(n) = {} \/ \E c : Holders(n) = {c}
    BY <1>4 DEF Holders
  <2>4. Cardinality(Holders(n)) \in {0, 1}
    BY <2>3, FS_EmptySet, FS_Singleton
  <2>5. Cardinality(Request) \in Nat \ {0}
    BY Assumption, FS_CardinalityType, FS_EmptySet
  <2> QED
    BY <2>1, <2>2, <2>4, <2>5
<1>16. EventInv
  BY <1>7, <1>8, <1>9 DEF EventInv
<1>17. SeatInv
  BY <1>3, <1>7, FS_EmptySet DEF SeatInv
<1>18. CapInv
  BY <1>9 DEF CapInv
<1>19. AnsweredSeat
  BY <1>2, <1>3 DEF AnsweredSeat, SeatsOf
<1>20. StaffInv
  <2>1. Unstaffed = {}
    BY <1>9 DEF Unstaffed
  <2> QED
    BY <1>2, <2>1 DEF StaffInv, OrganizerIsStaff
<1> QED
  BY <1>10, <1>11, <1>12, <1>13, <1>14, <1>15, <1>16, <1>17, <1>18, <1>19, <1>20 DEF SiteInv

LEMMA AccountStepKeeps ==
  ASSUME SiteInv, NEW r \in Request, AccountStep(r), UNCHANGED boardVars
  PROVE  SiteInv'
<1>1. CASE Arrive(r)
  BY <1>1, ArriveKeeps
<1>2. CASE Authenticate(r) \/ Fetch(r) \/ Outage(r) \/ Lookup(r) \/ InsertProfile(r)
             \/ InsertAccount(r) \/ ReadWinner(r)
  <2>1. SignInStep(r)
    BY <1>2, AuthenticateSigns, FetchSigns, OutageSigns, LookupSigns, InsertProfileSigns, InsertAccountSigns,
       ReadWinnerSigns
  <2> QED
    BY <2>1, SignInKeeps
<1>3. CASE AnswerMe(r)
  BY <1>3, AnswerMeKeeps
<1>4. CASE CreateInMemory(r) \/ CheckName(r) \/ InsertCharacter(r)
  BY <1>4, CreateInMemoryKeeps, CheckNameKeeps, InsertCharacterKeeps
<1>5. CASE Throttle(r) \/ Die(r)
  BY <1>5, ThrottleKeeps, DieKeeps
<1> QED
  BY <1>1, <1>2, <1>3, <1>4, <1>5 DEF AccountStep

LEMMA BoardStepKeeps ==
  ASSUME SiteInv, NEW r \in Request, BoardStep(r)
  PROVE  SiteInv'
<1>1. CASE CreateEventInMemory(r) \/ CreateEvent(r) \/ InsertEvent(r) \/ InsertOrganizer(r)
  BY <1>1, CreateEventInMemoryKeeps, CreateEventKeeps, InsertEventKeeps, InsertOrganizerKeeps
<1>2. CASE SignupInMemory(r) \/ PickInMemory(r) \/ CountSeats(r) \/ PickCharacter(r) \/ InsertSeat(r)
  BY <1>2, SignupInMemoryKeeps, PickInMemoryKeeps, CountSeatsKeeps, PickCharacterKeeps,
     InsertSeatKeeps
<1>3. CASE AddStaffInMemory(r) \/ CheckStaff(r) \/ InsertStaff(r)
  BY <1>3, AddStaffInMemoryKeeps, CheckStaffKeeps, InsertStaffKeeps
<1>4. CASE ListEvents(r)
  BY <1>4, ListEventsKeeps
<1> QED
  BY <1>1, <1>2, <1>3, <1>4 DEF BoardStep

LEMMA SiteIdles ==
  ASSUME SiteInv, UNCHANGED siteVars
  PROVE  SiteInv'
<1>1. /\ UNCHANGED <<store, now, valid, signedOut, cache, profiles, accounts, characters,
                     todo, req, answers, failures, cut>>
      /\ UNCHANGED <<events, seats, staff>>
  BY DEF siteVars, accVars, boardVars
<1>2. SiteTypeOK'
  BY <1>1 DEF SiteInv, SiteTypeOK, AccTypeOK, BoardTypeOK
<1>3. OneAccountPerUser'
  BY <1>1 DEF SiteInv, OneAccountPerUser, SessionOf
<1>4. SignInInv'
  BY <1>1 DEF SiteInv, SignInInv, InFlight, SessionOf, Optional
<1>5. CacheInv'
  BY <1>1 DEF SiteInv, CacheInv
<1>6. SentOnce'
  BY <1>1 DEF SiteInv, SentOnce, InFlight
<1>7. Numbered'
  BY <1>1 DEF SiteInv, Numbered
<1>8. NameInv'
  BY <1>1 DEF SiteInv, NameInv, Holders, Inserting
<1>9. EventInv'
  BY <1>1 DEF SiteInv, EventInv, Exists, InFlight
<1>10. SeatInv'
  BY <1>1 DEF SiteInv, SeatInv, Exists, Owns
<1>11. CapInv'
  BY <1>1 DEF SiteInv, CapInv, Exists, SeatsOf, Entering
<1>12. AnsweredSeat'
  BY <1>1 DEF SiteInv, AnsweredSeat, SeatsOf, Registered
<1>13. StaffInv'
  BY <1>1 DEF SiteInv, StaffInv, OrganizerIsStaff, Exists, Unstaffed, Due
<1> QED
  BY <1>2, <1>3, <1>4, <1>5, <1>6, <1>7, <1>8, <1>9, <1>10, <1>11, <1>12, <1>13 DEF SiteInv

\* Whatever requests of the site overlap, over either store, with a process
\* that exits between two inserts and users who sign out: requests and tables know of
\* each other what SiteInv says (sessionAuth, createCharacter, signup, create).
THEOREM SiteInvariant == SiteSpec => []SiteInv
<1>1. SiteInit => SiteInv
  BY SiteInitially
<1>2. SiteInv /\ [SiteNext]_siteVars => SiteInv'
  <2> SUFFICES ASSUME SiteInv, [SiteNext]_siteVars PROVE SiteInv'
    OBVIOUS
  <2>1. CASE \E r \in Request : AccountStep(r) /\ UNCHANGED boardVars
    BY <2>1, AccountStepKeeps
  <2>2. CASE \E r \in Request : BoardStep(r)
    BY <2>2, BoardStepKeeps
  <2>3. CASE Tick /\ UNCHANGED boardVars
    BY <2>3, TickKeeps
  <2>4. CASE \E s \in Session : SignOut(s) /\ UNCHANGED boardVars
    BY <2>4, SignOutKeeps
  <2>5. CASE UNCHANGED siteVars
    BY <2>5, SiteIdles
  <2> QED
    BY <2>1, <2>2, <2>3, <2>4, <2>5 DEF SiteNext
<1> QED
  BY <1>1, <1>2, PTL DEF SiteSpec

-----------------------------------------------------------------------------
(***************************************************************************)
(* What signing in and the board promise.                                  *)
(***************************************************************************)

\* Requests, cache and tables hold what their types say: every account a
\* character, a seat or a badge names is one, and every handler is at a step.
THEOREM SiteTypeCorrect == SiteSpec => []SiteTypeOK
<1>1. SiteInv => SiteTypeOK
  BY DEF SiteInv
<1> QED
  BY <1>1, SiteInvariant, PTL

\* Whatever first sign-ins of a user overlap, every request acts for the one
\* account in the table and the cache holds no other (provision).
THEOREM OneAccount == SiteSpec => []OneAccountPerUser
<1>1. SiteInv => OneAccountPerUser
  BY DEF SiteInv
<1> QED
  BY <1>1, SiteInvariant, PTL

\* A token is honoured for at most HIT_TTL_MS after the user signed out of it,
\* although its validation may be answered later (SupabaseSessionValidator).
THEOREM SignedOut == SiteSpec => []SignedOutSoon
<1>1. ASSUME SiteInv PROVE SignedOutSoon
  <2> SUFFICES ASSUME NEW s \in Session, s \notin valid, cache[s].account # NoSlug
               PROVE  cache[s].until <= signedOut[s] + HitTtl
    BY DEF SignedOutSoon
  <2>1. cache[s].until <= HitTtl + signedOut[s]
    BY <1>1 DEF SiteInv, CacheInv
  <2>2. cache[s].until \in Nat /\ signedOut[s] \in 0 .. MaxTime /\ MaxTime \in Nat
    BY <1>1, Assumption DEF SiteInv, SiteTypeOK, AccTypeOK
  <2> QED
    BY <2>1, <2>2 DEF HitTtl
<1> QED
  BY <1>1, SiteInvariant, PTL

\* A name goes to one character in memory and to as many as requests overlapped
\* on Postgres; an event is overbooked by those that overlapped the signup that
\* filled it, and by no more (createCharacter, signup).
THEOREM Races == SiteSpec => []RacesBounded
<1>1. ASSUME SiteInv PROVE NameRaceBounded
  <2> SUFFICES ASSUME NEW n \in Name
               PROVE  Cardinality(Holders(n))
                        <= (IF store = "memory" THEN 1 ELSE Cardinality(Request))
    BY DEF NameRaceBounded, Holders
  <2>1. /\ Cardinality(Holders(n)) \in Nat /\ Cardinality(Inserting(n)) \in Nat
        /\ Cardinality(Request) \in Nat
    BY <1>1, Counted
  <2>2. /\ store = "memory" => Cardinality(Holders(n)) <= 1
        /\ Holders(n) # {} =>
             Cardinality(Holders(n)) + Cardinality(Inserting(n)) <= Cardinality(Request)
    BY <1>1 DEF SiteInv, NameInv
  <2>3. Cardinality(Holders(n)) <= Cardinality(Request)
    <3>1. CASE Holders(n) # {}
      BY <2>1, <2>2, <3>1
    <3>2. CASE Holders(n) = {}
      BY <2>1, <3>2, FS_EmptySet
    <3> QED
      BY <3>1, <3>2
  <2> QED
    BY <2>2, <2>3
<1>2. ASSUME SiteInv PROVE OverbookingBounded
  <2> SUFFICES ASSUME NEW e \in Event, Exists(e)
               PROVE  Cardinality(SeatsOf(e)) <= events[e].cap + Cardinality(Request) - 1
    BY DEF OverbookingBounded
  <2>1. /\ Cardinality(SeatsOf(e)) \in Nat /\ Cardinality(Entering(e)) \in Nat
        /\ Cardinality(Request) \in Nat /\ events[e].cap \in Nat
    BY <1>2, Counted DEF SiteInv, SiteTypeOK, BoardTypeOK
  <2>2. Cardinality(SeatsOf(e)) + Cardinality(Entering(e))
          <= events[e].cap + Cardinality(Request) - 1
    BY <1>2 DEF SiteInv, CapInv
  <2> QED
    BY <2>1, <2>2
<1> QED
  BY <1>1, <1>2, SiteInvariant, PTL DEF RacesBounded

\* "ok", "duplicate" and a listing marked as joined all mean that the account
\* has its seat, and it never has two (signup, unique violations, list).
THEOREM Seats == SiteSpec => []AnsweredSeat
<1>1. SiteInv => AnsweredSeat
  BY DEF SiteInv
<1> QED
  BY <1>1, SiteInvariant, PTL

\* An event whose creation was answered has its organizer on its staff; one that
\* has not is due to a handler between its two inserts, or to one whose process
\* exited there (create, serve.ts).
THEOREM Organizer == SiteSpec => []OrganizerIsStaff
<1>1. SiteInv => OrganizerIsStaff
  BY DEF SiteInv, StaffInv
<1> QED
  BY <1>1, SiteInvariant, PTL
=============================================================================
