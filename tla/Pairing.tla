------------------------------- MODULE Pairing -------------------------------
(***************************************************************************)
(* Device pairing: the companion asks for a code, the account owner        *)
(* approves it in the browser, the companion polls until it is given a     *)
(* reporting credential, and `acl-companion revoke` gives it back.         *)
(*                                                                         *)
(* A request handler of packages/server/src/api.ts is a slot of Call with  *)
(* a program counter: one step per await, because every other request may  *)
(* run between two awaits.  The AuthStore behind the handlers is Postgres  *)
(* (one installations row per installation) or memory (one row per token); *)
(* `backend` says which one the server was started with.                   *)
(***************************************************************************)
EXTENDS Naturals, FiniteSets

CONSTANTS
    Account,      \* signed-in accounts that may approve a code
    Inst,         \* companion installations
    Code,         \* pairing codes; a device code and its user code are one value
    Call,         \* slots for requests the server is handling
    NoAccount, NoCode, NoInst, NoCall,
    MaxIssue,     \* bound on the credentials minted for one code
    MaxFail       \* bound on lost answers and dead handlers

ASSUME PairingAssumption ==
    /\ NoAccount \notin Account
    /\ NoCode \notin Code
    /\ NoInst \notin Inst
    /\ NoCall \notin Call
    /\ MaxIssue \in Nat
    /\ MaxFail \in Nat

\* A credential is named by the code it was minted for and the how-manieth it is.
Token == Code \X (1 .. MaxIssue)
NoToken == <<NoCode, 0>>

Backend == {"pg", "memory"}

VARIABLES
    backend,      \* the AuthStore serve.ts chose, fixed for the life of the server
    pairs,        \* pair_requests: what is stored under each code
    devices,      \* the stored credentials
    expired,      \* the codes whose ten minutes are over
    minted,       \* how many tokens each code has been given
    killed,       \* tokens whose revocation reached a stored row
    call,         \* the requests in flight
    comp,         \* the companion process of each installation
    cred,         \* credential.json of each installation
    failures      \* answers lost and handlers killed so far

authVars == <<pairs, devices>>
pairVars == <<backend, pairs, devices, expired, minted, killed, call, comp, cred, failures>>

PairRow == [inst: Inst, approved: Account \cup {NoAccount}, consumed: BOOLEAN]
NoPair == [inst |-> NoInst, approved |-> NoAccount, consumed |-> FALSE]
Device == [inst: Inst, token: Token, account: Account, revoked: BOOLEAN]

IdleCall == [kind |-> "none", pc |-> "idle", inst |-> NoInst, code |-> NoCode,
             account |-> NoAccount, token |-> NoToken, result |-> "none"]
CallRow == [kind: {"none", "start", "poll", "approve", "revoke"},
            pc: {"idle", "begin", "update", "save", "consume", "answer"},
            inst: Inst \cup {NoInst}, code: Code \cup {NoCode},
            account: Account \cup {NoAccount}, token: Token \cup {NoToken},
            result: {"none", "started", "pending", "approved", "gone", "revoked", "rejected"}]

IdleComp == [pc |-> "idle", code |-> NoCode, call |-> NoCall]
CompRow == [pc: {"idle", "starting", "waiting", "polling", "revoking"},
            code: Code \cup {NoCode}, call: Call \cup {NoCall}]

PairTypeOK ==
    /\ backend \in Backend
    /\ pairs \in [Code -> PairRow \cup {NoPair}]
    /\ devices \in SUBSET Device
    /\ expired \in SUBSET Code
    /\ minted \in [Code -> 0 .. MaxIssue]
    /\ killed \in SUBSET Token
    /\ call \in [Call -> CallRow]
    /\ comp \in [Inst -> CompRow]
    /\ cred \in [Inst -> Token \cup {NoToken}]
    /\ failures \in 0 .. MaxFail

PairInit ==
    /\ backend \in Backend
    /\ pairs = [c \in Code |-> NoPair]
    /\ devices = {}
    /\ expired = {}
    /\ minted = [c \in Code |-> 0]
    /\ killed = {}
    /\ call = [h \in Call |-> IdleCall]
    /\ comp = [i \in Inst |-> IdleComp]
    /\ cred = [i \in Inst |-> NoToken]
    /\ failures = 0

-----------------------------------------------------------------------------
(* The AuthStore: one operator per method that changes a row. *)

\* getPair, getPairByUserCode: the code has been stored.
Known(c) == pairs[c] # NoPair

\* savePair: a new row, neither approved nor consumed.
SavePair(c, i) ==
    pairs' = [pairs EXCEPT ![c] = [inst |-> i, approved |-> NoAccount, consumed |-> FALSE]]

\* What the in-memory approvePair looks at.
Open(c) == Known(c) /\ pairs[c].approved = NoAccount /\ ~pairs[c].consumed

\* Mutant of Approvable: the update does not look at the expiry again.
ApprovableUnlessUsed(c) == Open(c)

\* The rows approvePair may flip.  Postgres tests the expiry again in the
\* update itself; the in-memory store relies on the handler's earlier test.
Approvable(c) == Open(c) /\ (backend = "pg" => c \notin expired)

ApprovePair(c, a) ==
    pairs' = IF Approvable(c) THEN [pairs EXCEPT ![c] = [@ EXCEPT !.approved = a]] ELSE pairs

ConsumePair(c) == pairs' = [pairs EXCEPT ![c] = [@ EXCEPT !.consumed = TRUE]]

RowOf(i) == {d \in devices : d.inst = i}

Consumed(i) == [c \in Code |-> IF pairs[c].inst = i THEN [pairs[c] EXCEPT !.consumed = TRUE]
                              ELSE pairs[c]]

\* Mutant of Upsert: the row of an installation keeps its first account.
UpsertOldAccount(d) ==
    (devices \ RowOf(d.inst)) \cup
        {IF RowOf(d.inst) = {} THEN d
         ELSE [d EXCEPT !.account = (CHOOSE e \in RowOf(d.inst) : TRUE).account]}

\* Mutant of Upsert: the row of an installation keeps its first digest.
UpsertOldDigest(d) ==
    (devices \ RowOf(d.inst)) \cup
        {IF RowOf(d.inst) = {} THEN d
         ELSE [d EXCEPT !.token = (CHOOSE e \in RowOf(d.inst) : TRUE).token]}

\* Postgres keeps one row per installation: the new digest replaces the old one
\* and un-revokes the row.
Upsert(d) == (devices \ RowOf(d.inst)) \cup {d}

\* saveDevice: the row and, in the same transaction, every request of that
\* installation still open is consumed.  In memory, a row per token.
SaveDevice(d) ==
    \/ /\ backend = "pg"
       /\ devices' = Upsert(d)
       /\ pairs' = Consumed(d.inst)
    \/ /\ backend = "memory"
       /\ devices' = devices \cup {d}
       /\ UNCHANGED pairs

\* Mutant of RevokeDevice: marks the installation the token belongs to, by its code.
RevokeInstallation(t) ==
    devices' = {IF d.inst = pairs[t[1]].inst THEN [d EXCEPT !.revoked = TRUE] ELSE d : d \in devices}

RevokeDevice(t) ==
    devices' = {IF d.token = t THEN [d EXCEPT !.revoked = TRUE] ELSE d : d \in devices}

\* getDevice.
Stored(t) == {d \in devices : d.token = t}

\* helperAuth: the token is stored and not revoked.
Accepted(t) == \E d \in Stored(t) : ~d.revoked

-----------------------------------------------------------------------------
(* The request handlers. *)

Answer(h, result) == [call[h] EXCEPT !.pc = "answer", !.result = result]

\* POST /v1/pair/start: a fresh code for the installation that asks.
ServeStart(h) ==
    /\ call[h].kind = "start" /\ call[h].pc = "begin"
    /\ \E c \in Code :
        /\ ~Known(c)
        /\ SavePair(c, call[h].inst)
        /\ call' = [call EXCEPT ![h] = [Answer(h, "started") EXCEPT !.code = c]]
    /\ UNCHANGED <<backend, devices, expired, minted, killed, comp, cred, failures>>

\* POST /v1/pair/poll up to its first write: the row is read, tested, and a
\* token is minted for an approved one.
ServePoll(h) ==
    /\ call[h].kind = "poll" /\ call[h].pc = "begin"
    /\ LET p == pairs[call[h].code] IN
        \/ /\ \/ call[h].code \in expired
              \/ p.consumed
           /\ call' = [call EXCEPT ![h] = Answer(h, "gone")]
           /\ UNCHANGED minted
        \/ /\ call[h].code \notin expired
           /\ ~p.consumed
           /\ p.approved = NoAccount
           /\ call' = [call EXCEPT ![h] = Answer(h, "pending")]
           /\ UNCHANGED minted
        \/ /\ call[h].code \notin expired
           /\ ~p.consumed
           /\ p.approved # NoAccount
           /\ minted[call[h].code] < MaxIssue
           /\ minted' = [minted EXCEPT ![call[h].code] = @ + 1]
           /\ call' = [call EXCEPT ![h] = [@ EXCEPT
                  !.pc = "save", !.account = p.approved, !.inst = p.inst,
                  !.token = <<call[h].code, minted[call[h].code] + 1>>]]
    /\ UNCHANGED <<backend, pairs, devices, expired, killed, comp, cred, failures>>

ServePollSave(h) ==
    /\ call[h].kind = "poll" /\ call[h].pc = "save"
    /\ SaveDevice([inst |-> call[h].inst, token |-> call[h].token,
                   account |-> call[h].account, revoked |-> FALSE])
    /\ call' = [call EXCEPT ![h] = [@ EXCEPT !.pc = "consume"]]
    /\ UNCHANGED <<backend, expired, minted, killed, comp, cred, failures>>

ServePollConsume(h) ==
    /\ call[h].kind = "poll" /\ call[h].pc = "consume"
    /\ ConsumePair(call[h].code)
    /\ call' = [call EXCEPT ![h] = Answer(h, "approved")]
    /\ UNCHANGED <<backend, devices, expired, minted, killed, comp, cred, failures>>

\* POST /v1/pair/approve: the code is looked up and its expiry tested, and
\* one await later the row is flipped if it still can be.
ServeApprove(h) ==
    /\ call[h].kind = "approve" /\ call[h].pc = "begin"
    /\ call' = [call EXCEPT ![h] = IF call[h].code \in expired THEN IdleCall
                                   ELSE [@ EXCEPT !.pc = "update"]]
    /\ UNCHANGED <<backend, pairs, devices, expired, minted, killed, comp, cred, failures>>

ServeApproveUpdate(h) ==
    /\ call[h].kind = "approve" /\ call[h].pc = "update"
    /\ ApprovePair(call[h].code, call[h].account)
    /\ call' = [call EXCEPT ![h] = IdleCall]
    /\ UNCHANGED <<backend, devices, expired, minted, killed, comp, cred, failures>>

\* POST /v1/pair/revoke: helperAuth, then the row with that token is marked.
ServeRevoke(h) ==
    /\ call[h].kind = "revoke" /\ call[h].pc = "begin"
    /\ call' = [call EXCEPT ![h] = IF Accepted(call[h].token)
                                   THEN [@ EXCEPT !.pc = "update"]
                                   ELSE Answer(h, "rejected")]
    /\ UNCHANGED <<backend, pairs, devices, expired, minted, killed, comp, cred, failures>>

ServeRevokeUpdate(h) ==
    /\ call[h].kind = "revoke" /\ call[h].pc = "update"
    /\ RevokeDevice(call[h].token)
    /\ killed' = IF Stored(call[h].token) # {}
                 THEN killed \cup {call[h].token} ELSE killed
    /\ call' = [call EXCEPT ![h] = Answer(h, "revoked")]
    /\ UNCHANGED <<backend, pairs, expired, minted, comp, cred, failures>>

\* The rate limiter answers 429 before anything else: pair() throws on it.
Limited(h) ==
    /\ call[h].kind \in {"start", "poll"} /\ call[h].pc = "begin"
    /\ call' = [call EXCEPT ![h] = Answer(h, "rejected")]
    /\ UNCHANGED <<backend, pairs, devices, expired, minted, killed, comp, cred, failures>>

Server(h) ==
    \/ Limited(h)
    \/ ServeStart(h)
    \/ ServePoll(h) \/ ServePollSave(h) \/ ServePollConsume(h)
    \/ ServeApprove(h) \/ ServeApproveUpdate(h)
    \/ ServeRevoke(h) \/ ServeRevokeUpdate(h)

-----------------------------------------------------------------------------
(* The companion's command line, and the browser. *)

\* The request of installation i goes out in slot h.
Send(i, h, pc, request) ==
    /\ call[h] = IdleCall
    /\ call' = [call EXCEPT ![h] = request]
    /\ comp' = [comp EXCEPT ![i] = [@ EXCEPT !.pc = pc, !.call = h]]

\* `acl-companion pair` when there is a code left to give it.
StartPair(i, h) ==
    /\ comp[i].pc = "idle"
    /\ \E c \in Code : ~Known(c)
    /\ \A g \in Call : call[g].kind # "start"
    /\ Send(i, h, "starting", [IdleCall EXCEPT !.kind = "start", !.pc = "begin", !.inst = i])
    /\ UNCHANGED <<backend, pairs, devices, expired, minted, killed, cred, failures>>

\* One turn of the polling loop: the deadline was tested before the sleep,
\* so the poll that follows may be sent after the code has expired.
SendPoll(i, h) ==
    /\ comp[i].pc = "waiting"
    /\ Send(i, h, "polling", [IdleCall EXCEPT !.kind = "poll", !.pc = "begin",
                                              !.code = comp[i].code])
    /\ UNCHANGED <<backend, pairs, devices, expired, minted, killed, cred, failures>>

\* The deadline has passed: pair() throws "pairing expired".
GiveUp(i) ==
    /\ comp[i].pc = "waiting"
    /\ comp[i].code \in expired
    /\ comp' = [comp EXCEPT ![i] = IdleComp]
    /\ UNCHANGED <<backend, pairs, devices, expired, minted, killed, call, cred, failures>>

\* `acl-companion revoke` with a stored credential.
SendRevoke(i, h) ==
    /\ comp[i].pc = "idle"
    /\ cred[i] # NoToken
    /\ Send(i, h, "revoking", [IdleCall EXCEPT !.kind = "revoke", !.pc = "begin",
                                               !.inst = i, !.token = cred[i]])
    /\ UNCHANGED <<backend, pairs, devices, expired, minted, killed, cred, failures>>

\* The companion has the answer of its request.  "pending" goes back to the
\* loop, "approved" is written to credential.json, anything else is thrown;
\* revoke clears the file whatever the answer.
Receive(i) ==
    LET h == comp[i].call IN
    /\ h # NoCall
    /\ call[h].pc = "answer"
    /\ comp' = [comp EXCEPT ![i] =
         IF call[h].result = "started" THEN [pc |-> "waiting", code |-> call[h].code, call |-> NoCall]
         ELSE IF call[h].result = "pending" THEN [@ EXCEPT !.pc = "waiting", !.call = NoCall]
         ELSE IdleComp]
    /\ cred' = [cred EXCEPT ![i] = IF call[h].result = "approved" THEN call[h].token
                                   ELSE IF call[h].kind = "revoke" THEN NoToken ELSE @]
    /\ call' = [call EXCEPT ![h] = IdleCall]
    /\ UNCHANGED <<backend, pairs, devices, expired, minted, killed, failures>>

\* Mutant of LoseAnswer: a poll that failed is sent again.
LoseAnswerRetry(i) ==
    /\ comp[i].call # NoCall
    /\ failures < MaxFail
    /\ failures' = failures + 1
    /\ comp' = [comp EXCEPT ![i] = IF comp[i].pc = "polling"
                                   THEN [pc |-> "waiting", code |-> comp[i].code, call |-> NoCall]
                                   ELSE IdleComp]
    /\ cred' = [cred EXCEPT ![i] = IF comp[i].pc = "revoking" THEN NoToken ELSE @]
    /\ UNCHANGED <<backend, pairs, devices, expired, minted, killed, call>>

\* The connection of a waiting companion breaks.  pair() throws and is not
\* retried, revoke() ignores the error and clears the file; the handler, if
\* the request reached it, runs on and its answer goes nowhere.
LoseAnswer(i) ==
    /\ comp[i].call # NoCall
    /\ failures < MaxFail
    /\ failures' = failures + 1
    /\ comp' = [comp EXCEPT ![i] = IdleComp]
    /\ cred' = [cred EXCEPT ![i] = IF comp[i].pc = "revoking" THEN NoToken ELSE @]
    /\ UNCHANGED <<backend, pairs, devices, expired, minted, killed, call>>

\* A handler with nobody waiting for it has finished.
Forget(h) ==
    /\ call[h].pc = "answer"
    /\ \A i \in Inst : comp[i].call # h
    /\ call' = [call EXCEPT ![h] = IdleCall]
    /\ UNCHANGED <<backend, pairs, devices, expired, minted, killed, comp, cred, failures>>

\* Mutant of Die: the client is left waiting.
DieSilently(h) ==
    /\ backend = "pg"
    /\ call[h].pc \notin {"idle", "answer"}
    /\ failures < MaxFail
    /\ failures' = failures + 1
    /\ call' = [call EXCEPT ![h] = IdleCall]
    /\ UNCHANGED <<backend, pairs, devices, expired, minted, killed, comp, cred>>

\* A handler on Postgres dies where it stands: a query failed and the process
\* exited, which is this for every handler.  (With the in-memory store a restart
\* forgets everything.)
Die(h) ==
    /\ backend = "pg"
    /\ call[h].pc \notin {"idle", "answer"}
    /\ failures < MaxFail
    /\ failures' = failures + 1
    /\ call' = [call EXCEPT ![h] = IdleCall]
    /\ comp' = [i \in Inst |-> IF comp[i].call = h THEN IdleComp ELSE comp[i]]
    /\ cred' = [i \in Inst |-> IF comp[i].call = h /\ comp[i].pc = "revoking"
                               THEN NoToken ELSE cred[i]]
    /\ UNCHANGED <<backend, pairs, devices, expired, minted, killed>>

\* An account owner types a code the companion has shown.
SendApprove(a, c, h) ==
    /\ call[h] = IdleCall
    /\ Known(c)
    /\ call' = [call EXCEPT ![h] = [IdleCall EXCEPT !.kind = "approve", !.pc = "begin",
                                                    !.code = c, !.account = a]]
    /\ UNCHANGED <<backend, pairs, devices, expired, minted, killed, comp, cred, failures>>

\* Ten minutes have gone by since the code was stored.
Expire(c) ==
    /\ Known(c)
    /\ expired' = expired \cup {c}
    /\ UNCHANGED <<backend, pairs, devices, minted, killed, call, comp, cred, failures>>

PairNext ==
    \/ \E h \in Call : Server(h) \/ Forget(h) \/ Die(h)
    \/ \E i \in Inst, h \in Call : StartPair(i, h) \/ SendPoll(i, h) \/ SendRevoke(i, h)
    \/ \E i \in Inst : Receive(i) \/ GiveUp(i) \/ LoseAnswer(i)
    \/ \E a \in Account, c \in Code, h \in Call : SendApprove(a, c, h)
    \/ \E c \in Code : Expire(c)

PairSpec == PairInit /\ [][PairNext]_pairVars

\* The event loop runs every handler on, the companion's timer fires, and
\* time passes: nothing else is assumed, in particular nobody has to approve.
PairFairness ==
    /\ \A h \in Call : WF_pairVars(Server(h)) /\ WF_pairVars(Forget(h))
    /\ \A i \in Inst : /\ WF_pairVars(Receive(i))
                       /\ WF_pairVars(GiveUp(i))
                       /\ WF_pairVars(\E h \in Call : SendPoll(i, h))
    /\ \A c \in Code : WF_pairVars(Expire(c))

FairPairSpec == PairSpec /\ PairFairness

-----------------------------------------------------------------------------
(* What pairing promises. *)

\* A stored credential belongs to the account that approved the very code it
\* was minted for, and to the installation that asked for that code: however
\* approvals, polls and re-pairings overlap (api.ts, pair/approve and pair/poll).
CredentialApproved ==
    \A d \in devices :
        /\ pairs[d.token[1]].approved = d.account
        /\ pairs[d.token[1]].inst = d.inst

\* An approval is final: the account of a code is set once, on a row not yet
\* consumed, and in Postgres never after the code has expired, although the
\* handler tests the expiry one await before it writes (approvePair).
ApprovalIsFinal ==
    [][\A c \in Code :
        Known(c) /\ pairs'[c].approved # pairs[c].approved =>
            /\ pairs[c].approved = NoAccount
            /\ ~pairs[c].consumed
            /\ backend = "pg" => c \notin expired]_pairVars

\* A code yields one credential.  The server alone does not ensure it (two
\* polls may both pass the test of consumed_at before either writes); it
\* holds because the companion never has two polls of a code in flight.
SingleUse == \A c \in Code : minted[c] <= 1

\* A revoked credential is never accepted again, although pairing the same
\* installation anew clears revoked_at on its row (saveDevice).
RevokeIsFinal == \A t \in killed : ~Accepted(t)

\* The credential in the companion's file is accepted, unless it was revoked
\* or, in Postgres, a credential minted for another code of the same
\* installation was stored over it.
StoredCredentialLives ==
    \A i \in Inst : cred[i] # NoToken =>
        \/ Accepted(cred[i])
        \/ cred[i] \in killed
        \/ /\ backend = "pg"
           /\ \E d \in devices : d.inst = i /\ d.token[1] # cred[i][1]

\* A run of `acl-companion pair` or `revoke` comes to an end, approved or not.
PairEnds == \A i \in Inst : comp[i].pc # "idle" ~> comp[i].pc = "idle"
-----------------------------------------------------------------------------
(***************************************************************************)
(* The inductive invariant of PairingProofs: what handlers and companions  *)
(* know, that a code has one poll at most and none once it is spent, that  *)
(* a token on its way to the table is new, and that one that came from     *)
(* there lives.                                                            *)
(***************************************************************************)
Approved(k) == k.pc \in {"save", "consume"} \/ k.result = "approved"

CallKnows(k) ==
    /\ k.kind = "none" => k = IdleCall
    /\ k.kind = "start" =>
        /\ k.pc \in {"begin", "answer"} /\ k.result \in {"none", "started", "rejected"}
        /\ k.inst \in Inst
        /\ k.result = "started" => k.code \in Code /\ pairs[k.code].inst = k.inst
    /\ k.kind = "poll" =>
        /\ k.pc \in {"begin", "save", "consume", "answer"}
        /\ k.result \in {"none", "pending", "approved", "gone", "rejected"}
        /\ k.pc = "answer" <=> k.result # "none"
        /\ k.code \in Code /\ Known(k.code)
        /\ Approved(k) =>
            /\ minted[k.code] = 1 /\ k.token = <<k.code, 1>>
            /\ k.account \in Account /\ pairs[k.code].approved = k.account
            /\ pairs[k.code].inst = k.inst
    /\ k.kind = "approve" =>
        /\ k.pc \in {"begin", "update"} /\ k.result = "none"
        /\ k.code \in Code /\ Known(k.code) /\ k.account \in Account
    /\ k.kind = "revoke" =>
        /\ k.pc \in {"begin", "update", "answer"} /\ k.result \in {"none", "revoked", "rejected"}
        /\ k.token \in Token

CompKnows(i) ==
    LET k == call[comp[i].call] IN
    /\ comp[i].pc \in {"waiting", "polling"} => comp[i].code \in Code /\ pairs[comp[i].code].inst = i
    /\ comp[i].call = NoCall <=> comp[i].pc \in {"idle", "waiting"}
    /\ comp[i].pc = "starting" => k.kind = "start" /\ k.inst = i
    /\ comp[i].pc = "polling" => k.kind = "poll" /\ k.code = comp[i].code
    /\ comp[i].pc = "revoking" => k.kind = "revoke"
    /\ \A j \in Inst : comp[j].call = comp[i].call /\ comp[i].call # NoCall => j = i

Polls(h, c) == call[h].kind = "poll" /\ call[h].code = c
Starts(h, c) == call[h].result = "started" /\ call[h].code = c
Waits(i, c) == comp[i].pc = "waiting" /\ comp[i].code = c

OnePoll(c) ==
    /\ \A g, h \in Call : Polls(g, c) /\ Polls(h, c) => g = h
    /\ \A g, h \in Call : Starts(g, c) /\ Starts(h, c) => g = h
    /\ \A g, h \in Call : ~(Polls(g, c) /\ Starts(h, c))
    /\ \A i \in Inst, h \in Call : Waits(i, c) => ~Polls(h, c) /\ ~Starts(h, c)

Spent(c) ==
    minted[c] # 0 =>
        /\ minted[c] = 1 /\ Known(c)
        /\ \A h \in Call : ~Starts(h, c) /\ (Polls(h, c) => Approved(call[h]))
        /\ \A i \in Inst : ~Waits(i, c)

\* A token that is about to be stored is nowhere else yet.
New(t) ==
    /\ Stored(t) = {} /\ t \notin killed
    /\ \A i \in Inst : cred[i] # t

Lives(t) ==
    \/ Accepted(t)
    \/ t \in killed
    \/ backend = "pg" /\ \E d \in devices : d.inst = pairs[t[1]].inst /\ d.token[1] # t[1]

\* A token that was handed out: the first of its code.
TokenKnown(t) == t \in Token /\ t[2] = 1 /\ minted[t[1]] = 1

HandlersKnow == \A h \in Call : CallKnows(call[h])
CompanionsKnow == \A i \in Inst : CompKnows(i)
OncePerCode == \A c \in Code : OnePoll(c) /\ Spent(c)

Saving(h) == call[h].kind = "poll" /\ call[h].pc = "save"
Saved(h) == call[h].kind = "poll" /\ (call[h].pc = "consume" \/ call[h].result = "approved")

\* A token on its way to the table is new, one that is there lives; and so
\* does the one in a companion's file.
Pledged(h) ==
    /\ Saving(h) => New(call[h].token)
    /\ Saved(h) => Lives(call[h].token)

Held(i) ==
    cred[i] # NoToken => TokenKnown(cred[i]) /\ pairs[cred[i][1]].inst = i /\ Lives(cred[i])

TokensKnown ==
    /\ \A d \in devices : TokenKnown(d.token)
    /\ \A t \in killed : TokenKnown(t)
    /\ \A h \in Call : Pledged(h)
    /\ \A i \in Inst : Held(i)
    /\ CredentialApproved
    /\ RevokeIsFinal

PairInv == PairTypeOK /\ HandlersKnow /\ CompanionsKnow /\ OncePerCode /\ TokensKnown
=============================================================================
