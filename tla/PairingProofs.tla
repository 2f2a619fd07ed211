--------------------------- MODULE PairingProofs ---------------------------
(***************************************************************************)
(* Theorems about Pairing, for any number of accounts, companions, codes,  *)
(* handlers and failures, and either store.  The invariant is PairInv.     *)
(***************************************************************************)
EXTENDS Pairing, TLAPS

Result == {"none", "started", "pending", "approved", "gone", "revoked", "rejected"}

-----------------------------------------------------------------------------
(* Rows of the tables keep their types under the updates of the actions. *)

LEMMA CallTypes ==
  /\ IdleCall \in CallRow
  /\ \A k \in CallRow, r \in Result : [k EXCEPT !.pc = "answer", !.result = r] \in CallRow
  /\ \A k \in CallRow, r \in Result, c \in Code :
       [[k EXCEPT !.pc = "answer", !.result = r] EXCEPT !.code = c] \in CallRow
  /\ \A k \in CallRow, pc \in {"update", "consume"} : [k EXCEPT !.pc = pc] \in CallRow
  /\ \A k \in CallRow, a \in Account, i \in Inst, t \in Token :
       [k EXCEPT !.pc = "save", !.account = a, !.inst = i, !.token = t] \in CallRow
  /\ \A i \in Inst : [IdleCall EXCEPT !.kind = "start", !.pc = "begin", !.inst = i] \in CallRow
  /\ \A c \in Code : [IdleCall EXCEPT !.kind = "poll", !.pc = "begin", !.code = c] \in CallRow
  /\ \A i \in Inst, t \in Token :
       [IdleCall EXCEPT !.kind = "revoke", !.pc = "begin", !.inst = i, !.token = t] \in CallRow
  /\ \A a \in Account, c \in Code :
       [IdleCall EXCEPT !.kind = "approve", !.pc = "begin", !.code = c, !.account = a] \in CallRow
<1>1. IdleCall \in CallRow
  BY DEF IdleCall, CallRow
<1>2. \A k \in CallRow, r \in Result : [k EXCEPT !.pc = "answer", !.result = r] \in CallRow
  BY DEF CallRow, Result
<1>3. \A k \in CallRow, r \in Result, c \in Code :
      [[k EXCEPT !.pc = "answer", !.result = r] EXCEPT !.code = c] \in CallRow
  BY DEF CallRow, Result
<1>4. \A k \in CallRow, pc \in {"update", "consume"} : [k EXCEPT !.pc = pc] \in CallRow
  BY DEF CallRow
<1>5. \A k \in CallRow, a \in Account, i \in Inst, t \in Token :
      [k EXCEPT !.pc = "save", !.account = a, !.inst = i, !.token = t] \in CallRow
  BY DEF CallRow
<1>6. \A i \in Inst : [IdleCall EXCEPT !.kind = "start", !.pc = "begin", !.inst = i] \in CallRow
  BY DEF IdleCall, CallRow
<1>7. \A c \in Code : [IdleCall EXCEPT !.kind = "poll", !.pc = "begin", !.code = c] \in CallRow
  BY DEF IdleCall, CallRow
<1>8. \A i \in Inst, t \in Token :
      [IdleCall EXCEPT !.kind = "revoke", !.pc = "begin", !.inst = i, !.token = t] \in CallRow
  BY DEF IdleCall, CallRow
<1>9. \A a \in Account, c \in Code :
      [IdleCall EXCEPT !.kind = "approve", !.pc = "begin", !.code = c, !.account = a] \in CallRow
  BY DEF IdleCall, CallRow
<1> QED BY <1>1, <1>2, <1>3, <1>4, <1>5, <1>6, <1>7, <1>8, <1>9

LEMMA CompTypes ==
  /\ IdleComp \in CompRow
  /\ \A k \in CompRow, h \in Call, pc \in {"starting", "polling", "revoking"} :
       [k EXCEPT !.pc = pc, !.call = h] \in CompRow
  /\ \A c \in Code : [pc |-> "waiting", code |-> c, call |-> NoCall] \in CompRow
  /\ \A k \in CompRow : [k EXCEPT !.pc = "waiting", !.call = NoCall] \in CompRow
BY DEF IdleComp, CompRow

LEMMA PairTypes ==
  /\ \A i \in Inst : [inst |-> i, approved |-> NoAccount, consumed |-> FALSE] \in PairRow
  /\ \A p \in PairRow, a \in Account : [p EXCEPT !.approved = a] \in PairRow
  /\ \A p \in PairRow : [p EXCEPT !.consumed = TRUE] \in PairRow
BY DEF PairRow

LEMMA PairRows ==
  ASSUME PairTypeOK, NEW c \in Code
  PROVE  /\ pairs[c].inst \in Inst => pairs[c] \in PairRow /\ Known(c)
         /\ Known(c) => pairs[c] \in PairRow /\ pairs[c].inst \in Inst
                      /\ pairs[c].approved \in Account \cup {NoAccount}
BY PairingAssumption DEF PairTypeOK, PairRow, NoPair, Known, PairingAssumption

\* A row replaced or a field of it set: what the handlers do to `call`.
Same(h) == \A g \in Call : g # h => call'[g] = call[g]

Mine(h, row) == call' = [call EXCEPT ![h] = row]

LEMMA OneRow ==
  ASSUME PairTypeOK, NEW h \in Call, NEW row \in CallRow, Mine(h, row)
  PROVE  call' \in [Call -> CallRow] /\ call'[h] = row /\ Same(h)
BY DEF PairTypeOK, Mine, Same

-----------------------------------------------------------------------------
(* What each step of a handler does to its own row, field by field. *)

LEMMA LimitedIs ==
  ASSUME PairInv, NEW h \in Call, Limited(h)
  PROVE  /\ call' \in [Call -> CallRow] /\ Same(h)
         /\ call'[h] = [call[h] EXCEPT !.pc = "answer", !.result = "rejected"]
<1>1. call[h] \in CallRow /\ PairTypeOK
  BY DEF PairInv, PairTypeOK
<1>2. Mine(h, [call[h] EXCEPT !.pc = "answer", !.result = "rejected"])
  BY DEF Limited, Answer, Mine
<1> QED BY <1>1, <1>2, CallTypes, OneRow DEF Result

LEMMA ServeStartIs ==
  ASSUME PairInv, NEW h \in Call, ServeStart(h)
  PROVE  \E c \in Code :
           /\ ~Known(c) /\ SavePair(c, call[h].inst) /\ call[h].inst \in Inst
           /\ call' \in [Call -> CallRow] /\ Same(h)
           /\ call'[h] = [[call[h] EXCEPT !.pc = "answer", !.result = "started"] EXCEPT !.code = c]
<1>1. PICK c \in Code : /\ ~Known(c) /\ SavePair(c, call[h].inst)
                        /\ Mine(h, [Answer(h, "started") EXCEPT !.code = c])
  BY DEF ServeStart, Mine
<1>2. call[h] \in CallRow /\ PairTypeOK
  BY DEF PairInv, PairTypeOK
<1>3. call[h].inst \in Inst
  BY DEF ServeStart, PairInv, HandlersKnow, CallKnows
<1>4. Answer(h, "started") = [call[h] EXCEPT !.pc = "answer", !.result = "started"]
  BY DEF Answer
<1> QED BY <1>1, <1>2, <1>3, <1>4, CallTypes, OneRow DEF Result

LEMMA ServePollIs ==
  ASSUME PairInv, NEW h \in Call, ServePoll(h)
  PROVE  LET k == call[h]
             c == call[h].code
         IN /\ c \in Code /\ Known(c) /\ k.kind = "poll" /\ k.pc = "begin"
            /\ call' \in [Call -> CallRow] /\ Same(h)
            /\ \/ /\ \E r \in {"gone", "pending"} :
                       call'[h] = [k EXCEPT !.pc = "answer", !.result = r]
                  /\ minted' = minted
               \/ /\ minted[c] < MaxIssue /\ minted' = [minted EXCEPT ![c] = @ + 1]
                  /\ pairs[c].approved \in Account
                  /\ call'[h] = [k EXCEPT !.pc = "save", !.account = pairs[c].approved,
                                          !.inst = pairs[c].inst, !.token = <<c, minted[c] + 1>>]
<1> DEFINE k == call[h]
           c == call[h].code
           p == pairs[c]
           Minted == [k EXCEPT !.pc = "save", !.account = p.approved,
                               !.inst = p.inst, !.token = <<c, minted[c] + 1>>]
<1>1. k \in CallRow /\ PairTypeOK
  BY DEF PairInv, PairTypeOK
<1>2. c \in Code /\ Known(c) /\ k.kind = "poll" /\ k.pc = "begin"
  BY DEF ServePoll, PairInv, HandlersKnow, CallKnows
<1>3. p \in PairRow /\ p.inst \in Inst /\ p.approved \in Account \cup {NoAccount}
  BY <1>1, <1>2, PairRows
<1>4. \/ (\E r \in {"gone", "pending"} : Mine(h, Answer(h, r))) /\ minted' = minted
      \/ /\ minted[c] < MaxIssue /\ minted' = [minted EXCEPT ![c] = @ + 1]
         /\ p.approved # NoAccount /\ Mine(h, Minted)
  BY DEF ServePoll, Mine
<1>5. CASE (\E r \in {"gone", "pending"} : Mine(h, Answer(h, r))) /\ minted' = minted
  <2>1. PICK r \in {"gone", "pending"} : Mine(h, Answer(h, r))
    BY <1>5
  <2>2. Mine(h, [k EXCEPT !.pc = "answer", !.result = r])
    BY <2>1 DEF Answer
  <2>3. [k EXCEPT !.pc = "answer", !.result = r] \in CallRow
    BY <1>1, CallTypes DEF Result
  <2>4. /\ call' \in [Call -> CallRow] /\ Same(h)
        /\ call'[h] = [k EXCEPT !.pc = "answer", !.result = r]
    BY <2>2, <2>3, <1>1, OneRow
  <2> QED BY <2>4, <1>2, <1>5
<1>6. CASE /\ minted[c] < MaxIssue /\ minted' = [minted EXCEPT ![c] = @ + 1]
           /\ p.approved # NoAccount /\ Mine(h, Minted)
  <2>1. <<c, minted[c] + 1>> \in Token
    BY <1>1, <1>2, <1>6, PairingAssumption DEF PairTypeOK, Token, PairingAssumption
  <2>2. Minted \in CallRow
    BY <2>1, <1>1, <1>3, <1>6, CallTypes
  <2> QED BY <2>2, <1>1, <1>2, <1>3, <1>6, OneRow
<1> QED BY <1>4, <1>5, <1>6

LEMMA ServePollSaveIs ==
  ASSUME PairInv, NEW h \in Call, ServePollSave(h)
  PROVE  /\ call[h].kind = "poll" /\ call[h].pc = "save" /\ call[h].code \in Code
         /\ call' \in [Call -> CallRow] /\ Same(h)
         /\ call'[h] = [call[h] EXCEPT !.pc = "consume"]
<1>1. call[h] \in CallRow /\ PairTypeOK
  BY DEF PairInv, PairTypeOK
<1>2. Mine(h, [call[h] EXCEPT !.pc = "consume"])
  BY DEF ServePollSave, Mine
<1>3. call[h].kind = "poll" /\ call[h].pc = "save" /\ call[h].code \in Code
  BY DEF ServePollSave, PairInv, HandlersKnow, CallKnows
<1> QED BY <1>1, <1>2, <1>3, CallTypes, OneRow

LEMMA ServePollConsumeIs ==
  ASSUME PairInv, NEW h \in Call, ServePollConsume(h)
  PROVE  /\ call[h].kind = "poll" /\ call[h].pc = "consume"
         /\ call[h].code \in Code /\ Known(call[h].code)
         /\ call' \in [Call -> CallRow] /\ Same(h)
         /\ call'[h] = [call[h] EXCEPT !.pc = "answer", !.result = "approved"]
<1>1. call[h] \in CallRow /\ PairTypeOK
  BY DEF PairInv, PairTypeOK
<1>2. Mine(h, [call[h] EXCEPT !.pc = "answer", !.result = "approved"])
  BY DEF ServePollConsume, Answer, Mine
<1>3. call[h].kind = "poll" /\ call[h].pc = "consume" /\ call[h].code \in Code /\ Known(call[h].code)
  BY DEF ServePollConsume, PairInv, HandlersKnow, CallKnows
<1> QED BY <1>1, <1>2, <1>3, CallTypes, OneRow DEF Result

LEMMA ServeApproveIs ==
  ASSUME PairInv, NEW h \in Call, ServeApprove(h)
  PROVE  /\ call[h].kind = "approve"
         /\ call' \in [Call -> CallRow] /\ Same(h)
         /\ call'[h] = IdleCall \/ call'[h] = [call[h] EXCEPT !.pc = "update"]
<1>1. call[h] \in CallRow /\ PairTypeOK
  BY DEF PairInv, PairTypeOK
<1>2. Mine(h, IdleCall) \/ Mine(h, [call[h] EXCEPT !.pc = "update"])
  BY DEF ServeApprove, Mine
<1> QED BY <1>1, <1>2, CallTypes, OneRow DEF ServeApprove

LEMMA ServeApproveUpdateIs ==
  ASSUME PairInv, NEW h \in Call, ServeApproveUpdate(h)
  PROVE  /\ call[h].kind = "approve" /\ call[h].code \in Code /\ Known(call[h].code)
         /\ call[h].account \in Account
         /\ call' \in [Call -> CallRow] /\ Same(h) /\ call'[h] = IdleCall
<1>1. call[h] \in CallRow /\ PairTypeOK
  BY DEF PairInv, PairTypeOK
<1>2. Mine(h, IdleCall)
  BY DEF ServeApproveUpdate, Mine
<1>3. /\ call[h].kind = "approve" /\ call[h].code \in Code /\ Known(call[h].code)
      /\ call[h].account \in Account
  BY DEF ServeApproveUpdate, PairInv, HandlersKnow, CallKnows
<1> QED BY <1>1, <1>2, <1>3, CallTypes, OneRow

LEMMA ServeRevokeIs ==
  ASSUME PairInv, NEW h \in Call, ServeRevoke(h)
  PROVE  /\ call[h].kind = "revoke"
         /\ call' \in [Call -> CallRow] /\ Same(h)
         /\ \/ call'[h] = [call[h] EXCEPT !.pc = "update"]
            \/ call'[h] = [call[h] EXCEPT !.pc = "answer", !.result = "rejected"]
<1>1. call[h] \in CallRow /\ PairTypeOK
  BY DEF PairInv, PairTypeOK
<1>2. \/ Mine(h, [call[h] EXCEPT !.pc = "update"])
      \/ Mine(h, [call[h] EXCEPT !.pc = "answer", !.result = "rejected"])
  BY DEF ServeRevoke, Answer, Mine
<1> QED BY <1>1, <1>2, CallTypes, OneRow DEF Result, ServeRevoke

LEMMA ServeRevokeUpdateIs ==
  ASSUME PairInv, NEW h \in Call, ServeRevokeUpdate(h)
  PROVE  /\ call[h].kind = "revoke" /\ call[h].token \in Token
         /\ call' \in [Call -> CallRow] /\ Same(h)
         /\ call'[h] = [call[h] EXCEPT !.pc = "answer", !.result = "revoked"]
<1>1. call[h] \in CallRow /\ PairTypeOK
  BY DEF PairInv, PairTypeOK
<1>2. Mine(h, [call[h] EXCEPT !.pc = "answer", !.result = "revoked"])
  BY DEF ServeRevokeUpdate, Answer, Mine
<1>3. call[h].kind = "revoke" /\ call[h].token \in Token
  BY DEF ServeRevokeUpdate, PairInv, HandlersKnow, CallKnows
<1> QED BY <1>1, <1>2, <1>3, CallTypes, OneRow DEF Result

LEMMA ForgetIs ==
  ASSUME PairInv, NEW h \in Call, Forget(h)
  PROVE  call' \in [Call -> CallRow] /\ Same(h) /\ call'[h] = IdleCall
<1>1. PairTypeOK /\ Mine(h, IdleCall)
  BY DEF PairInv, Forget, Mine
<1> QED BY <1>1, CallTypes, OneRow

LEMMA DieIs ==
  ASSUME PairInv, NEW h \in Call, Die(h)
  PROVE  call' \in [Call -> CallRow] /\ Same(h) /\ call'[h] = IdleCall
<1>1. PairTypeOK /\ Mine(h, IdleCall)
  BY DEF PairInv, Die, Mine
<1> QED BY <1>1, CallTypes, OneRow

-----------------------------------------------------------------------------
(* What the companion's steps and the browser's do to the two rows. *)

SameComp(i) == \A j \in Inst : j # i => comp'[j] = comp[j]

LEMMA OneComp ==
  ASSUME PairTypeOK, NEW i \in Inst, NEW row \in CompRow, comp' = [comp EXCEPT ![i] = row]
  PROVE  comp' \in [Inst -> CompRow] /\ comp'[i] = row /\ SameComp(i)
BY DEF PairTypeOK, SameComp

LEMMA SendIs ==
  ASSUME PairInv, NEW i \in Inst, NEW h \in Call, NEW pc \in {"starting", "polling", "revoking"},
         NEW row \in CallRow, Send(i, h, pc, row)
  PROVE  /\ call[h] = IdleCall
         /\ call' \in [Call -> CallRow] /\ Same(h) /\ call'[h] = row
         /\ comp' \in [Inst -> CompRow] /\ SameComp(i)
         /\ comp'[i] = [comp[i] EXCEPT !.pc = pc, !.call = h]
<1>1. PairTypeOK /\ comp[i] \in CompRow
  BY DEF PairInv, PairTypeOK
<1>2. Mine(h, row) /\ call[h] = IdleCall /\ comp' = [comp EXCEPT ![i] = [comp[i] EXCEPT !.pc = pc, !.call = h]]
  BY DEF Send, Mine
<1> QED BY <1>1, <1>2, CompTypes, OneRow, OneComp

LEMMA StartPairIs ==
  ASSUME PairInv, NEW i \in Inst, NEW h \in Call, StartPair(i, h)
  PROVE  /\ call[h] = IdleCall /\ comp[i].pc = "idle"
         /\ call' \in [Call -> CallRow] /\ Same(h)
         /\ call'[h] = [IdleCall EXCEPT !.kind = "start", !.pc = "begin", !.inst = i]
         /\ comp' \in [Inst -> CompRow] /\ SameComp(i)
         /\ comp'[i] = [comp[i] EXCEPT !.pc = "starting", !.call = h]
<1> DEFINE request == [IdleCall EXCEPT !.kind = "start", !.pc = "begin", !.inst = i]
<1>2. request \in CallRow
  BY CallTypes
<1>3. Send(i, h, "starting", request)
  BY DEF StartPair
<1> HIDE DEF request
<1>4. /\ call[h] = IdleCall
      /\ call' \in [Call -> CallRow] /\ Same(h) /\ call'[h] = request
      /\ comp' \in [Inst -> CompRow] /\ SameComp(i)
      /\ comp'[i] = [comp[i] EXCEPT !.pc = "starting", !.call = h]
  BY <1>2, <1>3, SendIs
<1> QED BY <1>4 DEF request, StartPair

LEMMA SendPollIs ==
  ASSUME PairInv, NEW i \in Inst, NEW h \in Call, SendPoll(i, h)
  PROVE  /\ call[h] = IdleCall /\ comp[i].pc = "waiting" /\ comp[i].code \in Code
         /\ pairs[comp[i].code].inst = i
         /\ call' \in [Call -> CallRow] /\ Same(h)
         /\ call'[h] = [IdleCall EXCEPT !.kind = "poll", !.pc = "begin", !.code = comp[i].code]
         /\ comp' \in [Inst -> CompRow] /\ SameComp(i)
         /\ comp'[i] = [comp[i] EXCEPT !.pc = "polling", !.call = h]
<1>1. comp[i].pc = "waiting" /\ comp[i].code \in Code /\ pairs[comp[i].code].inst = i
  BY DEF SendPoll, PairInv, CompanionsKnow, CompKnows
<1> DEFINE request == [IdleCall EXCEPT !.kind = "poll", !.pc = "begin", !.code = comp[i].code]
<1>2. request \in CallRow
  BY <1>1, CallTypes
<1>3. Send(i, h, "polling", request)
  BY DEF SendPoll
<1> HIDE DEF request
<1>4. /\ call[h] = IdleCall
      /\ call' \in [Call -> CallRow] /\ Same(h) /\ call'[h] = request
      /\ comp' \in [Inst -> CompRow] /\ SameComp(i)
      /\ comp'[i] = [comp[i] EXCEPT !.pc = "polling", !.call = h]
  BY <1>2, <1>3, SendIs
<1> QED BY <1>1, <1>4 DEF request

LEMMA SendRevokeIs ==
  ASSUME PairInv, NEW i \in Inst, NEW h \in Call, SendRevoke(i, h)
  PROVE  /\ call[h] = IdleCall /\ comp[i].pc = "idle" /\ cred[i] \in Token
         /\ call' \in [Call -> CallRow] /\ Same(h)
         /\ call'[h] = [IdleCall EXCEPT !.kind = "revoke", !.pc = "begin", !.inst = i, !.token = cred[i]]
         /\ comp' \in [Inst -> CompRow] /\ SameComp(i)
         /\ comp'[i] = [comp[i] EXCEPT !.pc = "revoking", !.call = h]
<1>1. comp[i].pc = "idle" /\ cred[i] \in Token
  BY DEF SendRevoke, PairInv, TokensKnown, Held, TokenKnown
<1> DEFINE request == [IdleCall EXCEPT !.kind = "revoke", !.pc = "begin", !.inst = i,
                                          !.token = cred[i]]
<1>2. request \in CallRow
  BY <1>1, CallTypes
<1>3. Send(i, h, "revoking", request)
  BY DEF SendRevoke
<1> HIDE DEF request
<1>4. /\ call[h] = IdleCall
      /\ call' \in [Call -> CallRow] /\ Same(h) /\ call'[h] = request
      /\ comp' \in [Inst -> CompRow] /\ SameComp(i)
      /\ comp'[i] = [comp[i] EXCEPT !.pc = "revoking", !.call = h]
  BY <1>2, <1>3, SendIs
<1> QED BY <1>1, <1>4 DEF request

\* The request a companion waits for is its own.
LEMMA Waiting ==
  ASSUME PairInv, NEW i \in Inst, comp[i].call # NoCall
  PROVE  /\ comp[i].call \in Call /\ call[comp[i].call] \in CallRow
         /\ comp[i].pc \in {"starting", "polling", "revoking"}
         /\ CallKnows(call[comp[i].call])
<1>1. comp[i] \in CompRow /\ CompKnows(i)
  BY DEF PairInv, CompanionsKnow, PairTypeOK
<1>2. comp[i].call \in Call /\ comp[i].pc \in {"starting", "polling", "revoking"}
  BY <1>1 DEF CompRow, CompKnows
<1> QED BY <1>2 DEF PairInv, HandlersKnow, PairTypeOK

LEMMA ReceiveIs ==
  ASSUME PairInv, NEW i \in Inst, Receive(i)
  PROVE  LET h == comp[i].call
             k == call[comp[i].call]
         IN /\ h \in Call /\ h # NoCall /\ k.pc = "answer"
            /\ call' \in [Call -> CallRow] /\ Same(h) /\ call'[h] = IdleCall
            /\ comp' \in [Inst -> CompRow] /\ SameComp(i)
            /\ cred' = [cred EXCEPT ![i] = IF k.result = "approved" THEN k.token
                                           ELSE IF k.kind = "revoke" THEN NoToken ELSE cred[i]]
            /\ \/ /\ k.kind = "start" /\ k.result = "started" /\ k.inst = i
                  /\ comp'[i] = [pc |-> "waiting", code |-> k.code, call |-> NoCall]
               \/ /\ k.kind = "poll" /\ k.result = "pending" /\ k.code = comp[i].code
                  /\ comp'[i] = [comp[i] EXCEPT !.pc = "waiting", !.call = NoCall]
               \/ k.result \notin {"started", "pending"} /\ comp'[i] = IdleComp
<1> DEFINE h == comp[i].call
           k == call[h]
<1>1. /\ h \in Call /\ k \in CallRow /\ CallKnows(k) /\ h # NoCall /\ k.pc = "answer"
      /\ comp[i].pc \in {"starting", "polling", "revoking"}
  BY Waiting DEF Receive
<1>2. PairTypeOK /\ comp[i] \in CompRow /\ CompKnows(i)
  BY DEF PairInv, CompanionsKnow, PairTypeOK
<1>3. call' \in [Call -> CallRow] /\ Same(h) /\ call'[h] = IdleCall
  <2>1. Mine(h, IdleCall)
    BY DEF Receive, Mine
  <2> QED BY <2>1, <1>1, <1>2, CallTypes, OneRow
<1>4. k.kind # "none" /\ (k.result = "started" => k.kind = "start") /\ (k.result = "pending" => k.kind = "poll")
  BY <1>1 DEF CallKnows, IdleCall, CallRow
<1>5. (k.kind = "start" => k.inst = i) /\ (k.kind = "poll" => k.code = comp[i].code)
  BY <1>1, <1>2 DEF CompKnows
<1>6. cred' = [cred EXCEPT ![i] = IF k.result = "approved" THEN k.token
                                  ELSE IF k.kind = "revoke" THEN NoToken ELSE cred[i]]
  BY DEF Receive
<1>7. CASE k.result = "started"
  <2>1. k.code \in Code
    BY <1>1, <1>4, <1>7 DEF CallKnows
  <2>2. comp' = [comp EXCEPT ![i] = [pc |-> "waiting", code |-> k.code, call |-> NoCall]]
    BY <1>7 DEF Receive
  <2> QED BY <2>1, <2>2, <1>1, <1>2, <1>3, <1>4, <1>5, <1>6, <1>7, CompTypes, OneComp
<1>8. CASE k.result = "pending"
  <2>1. comp' = [comp EXCEPT ![i] = [comp[i] EXCEPT !.pc = "waiting", !.call = NoCall]]
    BY <1>8 DEF Receive
  <2> QED BY <2>1, <1>1, <1>2, <1>3, <1>4, <1>5, <1>6, <1>8, CompTypes, OneComp
<1>9. CASE k.result \notin {"started", "pending"}
  <2>1. comp' = [comp EXCEPT ![i] = IdleComp]
    BY <1>9 DEF Receive
  <2> QED BY <2>1, <1>1, <1>2, <1>3, <1>6, <1>9, CompTypes, OneComp
<1> QED BY <1>7, <1>8, <1>9

LEMMA GiveUpIs ==
  ASSUME PairInv, NEW i \in Inst, GiveUp(i)
  PROVE  comp' \in [Inst -> CompRow] /\ SameComp(i) /\ comp'[i] = IdleComp
BY CompTypes, OneComp DEF GiveUp, PairInv

LEMMA LoseAnswerIs ==
  ASSUME PairInv, NEW i \in Inst, LoseAnswer(i)
  PROVE  comp' \in [Inst -> CompRow] /\ SameComp(i) /\ comp'[i] = IdleComp
BY CompTypes, OneComp DEF LoseAnswer, PairInv

LEMMA SendApproveIs ==
  ASSUME PairInv, NEW a \in Account, NEW c \in Code, NEW h \in Call, SendApprove(a, c, h)
  PROVE  /\ call[h] = IdleCall /\ Known(c)
         /\ call' \in [Call -> CallRow] /\ Same(h)
         /\ call'[h] = [IdleCall EXCEPT !.kind = "approve", !.pc = "begin",
                                        !.code = c, !.account = a]
<1>1. /\ PairTypeOK /\ call[h] = IdleCall /\ Known(c)
      /\ Mine(h, [IdleCall EXCEPT !.kind = "approve", !.pc = "begin", !.code = c, !.account = a])
  BY DEF PairInv, SendApprove, Mine
<1> QED BY <1>1, CallTypes, OneRow


-----------------------------------------------------------------------------
(* The server's tables only grow: a code keeps its installation, its       *)
(* approval and its token.                                                 *)

Grow ==
  /\ PairTypeOK'
  /\ backend' = backend
  /\ \A c \in Code : Known(c) => pairs'[c].inst = pairs[c].inst
  /\ \A c \in Code : pairs[c].approved # NoAccount => pairs'[c].approved = pairs[c].approved
  /\ \A c \in Code : minted[c] = 1 => minted'[c] = 1

\* Nothing in the tables changes but what an action says of its own.
LEMMA Untouched ==
  ASSUME PairInv, call' \in [Call -> CallRow], comp' \in [Inst -> CompRow],
         cred' \in [Inst -> Token \cup {NoToken}], expired' \in SUBSET Code,
         failures' \in 0..MaxFail, UNCHANGED <<backend, pairs, devices, minted, killed>>
  PROVE  Grow
BY DEF PairInv, PairTypeOK, Grow

LEMMA ServeStartGrows ==
  ASSUME PairInv, NEW h \in Call, ServeStart(h)
  PROVE  Grow
<1> DEFINE new == [inst |-> call[h].inst, approved |-> NoAccount, consumed |-> FALSE]
<1>1. PICK c \in Code : /\ ~Known(c) /\ pairs' = [pairs EXCEPT ![c] = new] /\ call[h].inst \in Inst
                        /\ call' \in [Call -> CallRow]
  BY ServeStartIs DEF SavePair
<1>2. new \in PairRow
  BY <1>1, PairTypes
<1>3. UNCHANGED <<backend, devices, expired, minted, killed, comp, cred, failures>>
  BY DEF ServeStart
<1>4. pairs[c].approved = NoAccount
  BY <1>1 DEF Known, NoPair
<1> HIDE DEF new
<1> QED BY <1>1, <1>2, <1>3, <1>4 DEF PairInv, PairTypeOK, Grow

LEMMA ServePollGrows ==
  ASSUME PairInv, NEW h \in Call, ServePoll(h)
  PROVE  Grow
<1> DEFINE c == call[h].code
<1>1. /\ c \in Code /\ call[h].kind = "poll" /\ call[h].pc = "begin" /\ call' \in [Call -> CallRow]
      /\ \/ minted' = minted
         \/ minted[c] < MaxIssue /\ minted' = [minted EXCEPT ![c] = @ + 1]
  BY ServePollIs
<1>2. UNCHANGED <<backend, pairs, devices, expired, killed, comp, cred, failures>>
  BY DEF ServePoll
<1>3. minted[c] = 0
  <2>1. CallKnows(call[h]) /\ Spent(c) /\ Polls(h, c)
    BY <1>1 DEF PairInv, HandlersKnow, OncePerCode, Polls
  <2>2. ~Approved(call[h])
    BY <2>1, <1>1 DEF CallKnows, Approved
  <2> QED BY <2>1, <2>2 DEF Spent
<1>4. minted' \in [Code -> 0..MaxIssue]
  BY <1>1, <1>3, PairingAssumption DEF PairInv, PairTypeOK, PairingAssumption
<1> QED BY <1>1, <1>2, <1>3, <1>4 DEF PairInv, PairTypeOK, Grow

LEMMA ConsumeGrows ==
  ASSUME PairInv, NEW C \in SUBSET Code, \A c \in C : Known(c),
         pairs' = [c \in Code |-> IF c \in C THEN [pairs[c] EXCEPT !.consumed = TRUE] ELSE pairs[c]]
  PROVE  /\ pairs' \in [Code -> PairRow \cup {NoPair}]
         /\ \A c \in Code : pairs'[c].inst = pairs[c].inst /\ pairs'[c].approved = pairs[c].approved
<1>1. ASSUME NEW c \in C
      PROVE  /\ [pairs[c] EXCEPT !.consumed = TRUE] \in PairRow
             /\ pairs'[c] = [pairs[c] EXCEPT !.consumed = TRUE] /\ pairs[c] \in PairRow
  BY PairTypes, PairRows DEF PairInv
<1>2. ASSUME NEW c \in Code \ C PROVE pairs'[c] = pairs[c] /\ pairs[c] \in PairRow \cup {NoPair}
  BY DEF PairInv, PairTypeOK
<1>3. ASSUME NEW c \in C
      PROVE  pairs'[c].inst = pairs[c].inst /\ pairs'[c].approved = pairs[c].approved
  BY <1>1 DEF PairRow
<1> QED BY <1>1, <1>2, <1>3

LEMMA ServePollSaveGrows ==
  ASSUME PairInv, NEW h \in Call, ServePollSave(h)
  PROVE  Grow
<1> DEFINE k == call[h]
           d == [inst |-> k.inst, token |-> k.token, account |-> k.account, revoked |-> FALSE]
<1>1. /\ k.kind = "poll" /\ k.pc = "save" /\ k.code \in Code /\ call' \in [Call -> CallRow]
      /\ CallKnows(k) /\ PairTypeOK
  BY ServePollSaveIs DEF PairInv, HandlersKnow
<1>2. k.account \in Account /\ minted[k.code] = 1 /\ k.token = <<k.code, 1>> /\ k.inst \in Inst
  BY <1>1, PairRows DEF CallKnows, Approved
<1>3. d \in Device
  <2>1. k.token \in Token
    BY <1>1, <1>2, PairingAssumption DEF Token, PairTypeOK, PairingAssumption
  <2> QED BY <2>1, <1>2 DEF Device
<1>4. UNCHANGED <<backend, expired, minted, killed, comp, cred, failures>> /\ SaveDevice(d)
  BY DEF ServePollSave
<1>5. devices' \in SUBSET Device
  <2> HIDE DEF d
  <2> QED BY <1>1, <1>3, <1>4 DEF SaveDevice, Upsert, RowOf, PairTypeOK
<1>6. /\ pairs' \in [Code -> PairRow \cup {NoPair}]
      /\ \A c \in Code : pairs'[c].inst = pairs[c].inst /\ pairs'[c].approved = pairs[c].approved
  <2>1. CASE pairs' = pairs
    BY <2>1, <1>1 DEF PairTypeOK
  <2>2. CASE pairs' = Consumed(d.inst)
    <3> DEFINE C == {c \in Code : pairs[c].inst = d.inst}
    <3>1. \A c \in C : Known(c)
      BY <1>1, <1>2, PairRows
    <3>2. pairs' = [c \in Code |-> IF c \in C THEN [pairs[c] EXCEPT !.consumed = TRUE] ELSE pairs[c]]
      BY <2>2 DEF Consumed
    <3> HIDE DEF C
    <3> QED BY <3>1, <3>2, ConsumeGrows DEF C
  <2> QED BY <1>4, <2>1, <2>2 DEF SaveDevice
<1> HIDE DEF k, d
<1> QED BY <1>1, <1>4, <1>5, <1>6 DEF PairTypeOK, Grow

LEMMA ServePollConsumeGrows ==
  ASSUME PairInv, NEW h \in Call, ServePollConsume(h)
  PROVE  Grow
<1> DEFINE c == call[h].code
<1>1. c \in Code /\ Known(c) /\ call' \in [Call -> CallRow] /\ PairTypeOK
  BY ServePollConsumeIs DEF PairInv
<1>2. UNCHANGED <<backend, devices, expired, minted, killed, comp, cred, failures>> /\ ConsumePair(c)
  BY DEF ServePollConsume
<1>3. pairs' = [b \in Code |-> IF b \in {c} THEN [pairs[b] EXCEPT !.consumed = TRUE] ELSE pairs[b]]
  BY <1>1, <1>2 DEF ConsumePair, PairTypeOK
<1>4. /\ pairs' \in [Code -> PairRow \cup {NoPair}]
      /\ \A b \in Code : pairs'[b].inst = pairs[b].inst /\ pairs'[b].approved = pairs[b].approved
  <2> HIDE DEF c
  <2> QED BY <1>1, <1>3, ConsumeGrows
<1> QED BY <1>1, <1>2, <1>4 DEF PairTypeOK, Grow

LEMMA ServeApproveUpdateGrows ==
  ASSUME PairInv, NEW h \in Call, ServeApproveUpdate(h)
  PROVE  Grow
<1> DEFINE c == call[h].code
           a == call[h].account
<1>1. c \in Code /\ Known(c) /\ a \in Account /\ call' \in [Call -> CallRow] /\ PairTypeOK
  BY ServeApproveUpdateIs DEF PairInv
<1>2. UNCHANGED <<backend, devices, expired, minted, killed, comp, cred, failures>> /\ ApprovePair(c, a)
  BY DEF ServeApproveUpdate
<1>3. pairs[c] \in PairRow /\ [pairs[c] EXCEPT !.approved = a] \in PairRow
  BY <1>1, PairRows, PairTypes
<1>4. \/ pairs' = pairs
      \/ pairs[c].approved = NoAccount /\ pairs' = [pairs EXCEPT ![c] = [pairs[c] EXCEPT !.approved = a]]
  BY <1>2 DEF ApprovePair, Approvable, Open
<1>5. [pairs[c] EXCEPT !.approved = a].inst = pairs[c].inst
  BY <1>3 DEF PairRow
<1>6. CASE pairs' = pairs
  BY <1>6, <1>1, <1>2 DEF PairTypeOK, Grow
<1>7. CASE pairs[c].approved = NoAccount /\ pairs' = [pairs EXCEPT ![c] = [pairs[c] EXCEPT !.approved = a]]
  <2> DEFINE row == [pairs[c] EXCEPT !.approved = a]
  <2>1. pairs' = [pairs EXCEPT ![c] = row] /\ row \in PairRow /\ row.inst = pairs[c].inst
    BY <1>7, <1>3, <1>5
  <2> HIDE DEF row, c, a
  <2> QED BY <2>1, <1>1, <1>2, <1>7 DEF PairTypeOK, Grow
<1> QED BY <1>4, <1>6, <1>7

LEMMA ServeRevokeUpdateGrows ==
  ASSUME PairInv, NEW h \in Call, ServeRevokeUpdate(h)
  PROVE  Grow
<1> DEFINE t == call[h].token
<1>1. t \in Token /\ call' \in [Call -> CallRow] /\ PairTypeOK
  BY ServeRevokeUpdateIs DEF PairInv
<1>2. UNCHANGED <<backend, pairs, expired, minted, comp, cred, failures>> /\ RevokeDevice(t)
      /\ killed' \in SUBSET Token
  BY <1>1 DEF ServeRevokeUpdate, PairTypeOK
<1>3. devices' \in SUBSET Device
  <2>1. \A d \in Device : [d EXCEPT !.revoked = TRUE] \in Device
    BY DEF Device
  <2> QED BY <2>1, <1>1, <1>2 DEF RevokeDevice, PairTypeOK
<1> QED BY <1>1, <1>2, <1>3 DEF PairTypeOK, Grow

LEMMA HandlerGrows ==
  ASSUME PairInv, NEW h \in Call, Server(h) \/ Forget(h)
  PROVE  Grow
<1>1. CASE Limited(h) \/ ServeApprove(h) \/ ServeRevoke(h) \/ Forget(h)
  <2>1. call' \in [Call -> CallRow]
    BY <1>1, LimitedIs, ServeApproveIs, ServeRevokeIs, ForgetIs
  <2>2. UNCHANGED <<backend, pairs, devices, expired, minted, killed, comp, cred, failures>>
    BY <1>1 DEF Limited, ServeApprove, ServeRevoke, Forget
  <2> QED BY <2>1, <2>2, Untouched DEF PairInv, PairTypeOK
<1> QED BY <1>1, ServeStartGrows, ServePollGrows, ServePollSaveGrows, ServePollConsumeGrows,
           ServeApproveUpdateGrows, ServeRevokeUpdateGrows DEF Server

LEMMA DieGrows ==
  ASSUME PairInv, NEW h \in Call, Die(h)
  PROVE  Grow
<1>1. call' \in [Call -> CallRow] /\ PairTypeOK /\ IdleComp \in CompRow
  BY DieIs, CompTypes DEF PairInv
<1>2. comp' \in [Inst -> CompRow] /\ cred' \in [Inst -> Token \cup {NoToken}]
  BY <1>1 DEF Die, PairTypeOK
<1>3. /\ UNCHANGED <<backend, pairs, devices, expired, minted, killed>>
      /\ failures < MaxFail /\ failures' = failures + 1
  BY DEF Die
<1>4. failures' \in 0..MaxFail
  BY <1>1, <1>3, PairingAssumption DEF PairTypeOK, PairingAssumption
<1> QED BY <1>1, <1>2, <1>3, <1>4, Untouched DEF PairTypeOK

LEMMA ClientGrows ==
  ASSUME PairInv, NEW i \in Inst, NEW h \in Call, StartPair(i, h) \/ SendPoll(i, h) \/ SendRevoke(i, h)
  PROVE  Grow
<1>1. call' \in [Call -> CallRow] /\ comp' \in [Inst -> CompRow]
  BY StartPairIs, SendPollIs, SendRevokeIs
<1>2. UNCHANGED <<backend, pairs, devices, expired, minted, killed, cred, failures>>
  BY DEF StartPair, SendPoll, SendRevoke
<1> QED BY <1>1, <1>2, Untouched DEF PairInv, PairTypeOK

LEMMA ReceiveGrows ==
  ASSUME PairInv, NEW i \in Inst, Receive(i)
  PROVE  Grow
<1> DEFINE k == call[comp[i].call]
           t == IF k.result = "approved" THEN k.token
                ELSE IF k.kind = "revoke" THEN NoToken ELSE cred[i]
<1>1. /\ call' \in [Call -> CallRow] /\ comp' \in [Inst -> CompRow]
      /\ cred' = [cred EXCEPT ![i] = t]
  BY ReceiveIs
<1>2. PairTypeOK /\ k \in CallRow
  BY ReceiveIs DEF PairInv, PairTypeOK
<1>3. t \in Token \cup {NoToken}
  BY <1>2 DEF PairTypeOK, CallRow
<1>4. UNCHANGED <<backend, pairs, devices, expired, minted, killed, failures>>
  BY DEF Receive
<1> HIDE DEF t, k
<1>5. cred' \in [Inst -> Token \cup {NoToken}]
  BY <1>1, <1>2, <1>3 DEF PairTypeOK
<1> QED BY <1>1, <1>2, <1>4, <1>5, Untouched DEF PairTypeOK

LEMMA GiveUpGrows ==
  ASSUME PairInv, NEW i \in Inst, GiveUp(i)
  PROVE  Grow
BY GiveUpIs, Untouched DEF GiveUp, PairInv, PairTypeOK

LEMMA LoseAnswerGrows ==
  ASSUME PairInv, NEW i \in Inst, LoseAnswer(i)
  PROVE  Grow
<1>1. /\ UNCHANGED <<backend, pairs, devices, expired, minted, killed, call>>
      /\ failures < MaxFail /\ failures' = failures + 1
      /\ cred' = [cred EXCEPT ![i] = NoToken] \/ cred' = [cred EXCEPT ![i] = cred[i]]
  BY DEF LoseAnswer
<1>2. failures' \in 0..MaxFail /\ cred' \in [Inst -> Token \cup {NoToken}]
  BY <1>1, PairingAssumption DEF PairInv, PairTypeOK, PairingAssumption
<1> QED BY <1>1, <1>2, LoseAnswerIs, Untouched DEF PairInv, PairTypeOK

LEMMA BrowserGrows ==
  ASSUME PairInv, NEW a \in Account, NEW c \in Code, NEW h \in Call, SendApprove(a, c, h) \/ Expire(c)
  PROVE  Grow
<1>1. CASE SendApprove(a, c, h)
  BY <1>1, SendApproveIs, Untouched DEF SendApprove, PairInv, PairTypeOK
<1>2. CASE Expire(c)
  BY <1>2, Untouched DEF Expire, PairInv, PairTypeOK
<1> QED BY <1>1, <1>2

-----------------------------------------------------------------------------
(* What a handler knows stays true while the tables grow, and its own step *)
(* leaves it knowing what it must.                                         *)

Stays(c) == pairs'[c] # NoPair

LEMMA KnownStays ==
  ASSUME PairInv, Grow, NEW c \in Code, Known(c)
  PROVE  Stays(c) /\ pairs'[c].inst = pairs[c].inst
<1>1. pairs[c].inst \in Inst /\ pairs'[c].inst = pairs[c].inst
  BY PairRows DEF PairInv, Grow
<1>2. NoPair.inst \notin Inst
  BY PairingAssumption DEF NoPair, PairingAssumption
<1> QED BY <1>1, <1>2 DEF Stays

LEMMA KnowledgeKept ==
  ASSUME PairInv, Grow, NEW g \in Call, call'[g] = call[g]
  PROVE  CallKnows(call[g])'
<1>1. CallKnows(call[g]) /\ PairTypeOK
  BY DEF PairInv, HandlersKnow
<1>2. call[g].kind = "start" /\ call[g].result = "started" =>
        pairs'[call[g].code].inst = call[g].inst
  BY <1>1, PairRows, KnownStays DEF CallKnows
<1>3. call[g].kind = "poll" =>
        /\ Stays(call[g].code)
        /\ Approved(call[g]) => minted'[call[g].code] = 1 /\ pairs'[call[g].code].inst = call[g].inst
                                /\ pairs'[call[g].code].approved = call[g].account
  BY <1>1, KnownStays, PairingAssumption DEF CallKnows, Grow, PairingAssumption
<1>4. call[g].kind = "approve" => Stays(call[g].code)
  BY <1>1, KnownStays DEF CallKnows
<1> QED BY <1>1, <1>2, <1>3, <1>4 DEF CallKnows, Approved, Known, Stays

LEMMA HandlersStep ==
  ASSUME PairInv, Grow, NEW h \in Call, Same(h), CallKnows(call[h])'
  PROVE  HandlersKnow'
BY KnowledgeKept DEF HandlersKnow, Same

LEMMA IdleKnows ==
  ASSUME NEW h \in Call, call'[h] = IdleCall
  PROVE  CallKnows(call[h])'
BY DEF CallKnows, IdleCall

LEMMA LimitedKnows ==
  ASSUME PairInv, Grow, NEW h \in Call, Limited(h)
  PROVE  HandlersKnow'
<1>1. /\ Same(h) /\ call[h].kind \in {"start", "poll"} /\ call[h].pc = "begin"
      /\ call'[h] = [call[h] EXCEPT !.pc = "answer", !.result = "rejected"]
  BY LimitedIs DEF Limited
<1>2. CallKnows(call[h]) /\ call[h] \in CallRow
  BY DEF PairInv, HandlersKnow, PairTypeOK
<1>3. call[h].kind = "poll" => Stays(call[h].code)
  BY <1>2, KnownStays DEF CallKnows
<1>4. /\ call'[h].kind = call[h].kind /\ call'[h].pc = "answer" /\ call'[h].result = "rejected"
      /\ call'[h].code = call[h].code /\ call'[h].inst = call[h].inst
  BY <1>1, <1>2 DEF CallRow
<1>5. CallKnows(call[h])'
  BY <1>1, <1>2, <1>3, <1>4 DEF CallKnows, Approved, Known, Stays
<1> QED BY <1>1, <1>5, HandlersStep

LEMMA ServeStartKnows ==
  ASSUME PairInv, Grow, NEW h \in Call, ServeStart(h)
  PROVE  HandlersKnow'
<1>1. PICK c \in Code :
        /\ SavePair(c, call[h].inst) /\ call[h].inst \in Inst /\ Same(h)
        /\ call'[h] = [[call[h] EXCEPT !.pc = "answer", !.result = "started"] EXCEPT !.code = c]
  BY ServeStartIs
<1>2. call[h].kind = "start" /\ call[h] \in CallRow /\ pairs'[c].inst = call[h].inst
  BY <1>1 DEF ServeStart, SavePair, PairInv, PairTypeOK
<1>3. /\ call'[h].kind = "start" /\ call'[h].pc = "answer" /\ call'[h].result = "started"
      /\ call'[h].code = c /\ call'[h].inst = call[h].inst
  BY <1>1, <1>2 DEF CallRow
<1>4. CallKnows(call[h])'
  BY <1>1, <1>2, <1>3 DEF CallKnows
<1> QED BY <1>1, <1>4, HandlersStep

\* The row of a poll after its first step.
LEMMA PollRow ==
  ASSUME NEW k \in CallRow, NEW a \in Account, NEW i \in Inst, NEW t \in Token
  PROVE  LET n == [k EXCEPT !.pc = "save", !.account = a, !.inst = i, !.token = t]
         IN /\ n.kind = k.kind /\ n.pc = "save" /\ n.result = k.result /\ n.code = k.code
            /\ n.account = a /\ n.inst = i /\ n.token = t
BY DEF CallRow

\* A poll that mints makes the first token of its code.
LEMMA ServePollMints ==
  ASSUME PairInv, NEW h \in Call, ServePoll(h), minted' # minted
  PROVE  LET k == call[h]
             c == call[h].code
         IN /\ c \in Code /\ minted[c] = 0 /\ minted' = [minted EXCEPT ![c] = 1]
            /\ k.kind = "poll" /\ k.pc = "begin" /\ k.result = "none"
            /\ Same(h) /\ call'[h].kind = "poll" /\ call'[h].pc = "save" /\ call'[h].result = "none"
            /\ call'[h].code = c /\ call'[h].account = pairs[c].approved
            /\ call'[h].inst = pairs[c].inst /\ call'[h].token = <<c, 1>>
            /\ pairs[c].approved \in Account /\ pairs[c].inst \in Inst /\ <<c, 1>> \in Token
<1> DEFINE k == call[h]
           c == call[h].code
<1>1. /\ c \in Code /\ Known(c) /\ k.kind = "poll" /\ k.pc = "begin" /\ Same(h)
      /\ call'[h] \in CallRow
      /\ minted[c] < MaxIssue /\ minted' = [minted EXCEPT ![c] = @ + 1]
      /\ pairs[c].approved \in Account
      /\ call'[h] = [k EXCEPT !.pc = "save", !.account = pairs[c].approved,
                              !.inst = pairs[c].inst, !.token = <<c, minted[c] + 1>>]
  BY ServePollIs
<1>2. CallKnows(k) /\ k \in CallRow /\ PairTypeOK /\ Spent(c) /\ Polls(h, c)
  BY <1>1 DEF PairInv, HandlersKnow, PairTypeOK, OncePerCode, Polls
<1>3. k.result = "none"
  BY <1>1, <1>2 DEF CallKnows
<1>4. minted[c] = 0
  BY <1>1, <1>2, <1>3 DEF Spent, Approved
<1>5. <<c, 1>> \in Token /\ pairs[c].inst \in Inst
  BY <1>1, <1>2, <1>4, PairRows, PairingAssumption DEF Token, PairingAssumption
<1>6. minted' = [minted EXCEPT ![c] = 1]
  BY <1>1, <1>4
<1>7. call'[h] = [k EXCEPT !.pc = "save", !.account = pairs[c].approved,
                           !.inst = pairs[c].inst, !.token = <<c, 1>>]
  BY <1>1, <1>4
<1>8. /\ call'[h].kind = "poll" /\ call'[h].pc = "save" /\ call'[h].result = "none"
      /\ call'[h].code = c /\ call'[h].account = pairs[c].approved
      /\ call'[h].inst = pairs[c].inst /\ call'[h].token = <<c, 1>>
  <2> DEFINE n == [k EXCEPT !.pc = "save", !.account = pairs[c].approved,
                            !.inst = pairs[c].inst, !.token = <<c, 1>>]
  <2>1. /\ n.kind = k.kind /\ n.pc = "save" /\ n.result = k.result /\ n.code = k.code
        /\ n.account = pairs[c].approved /\ n.inst = pairs[c].inst /\ n.token = <<c, 1>>
    BY <1>1, <1>2, <1>5, PollRow
  <2>2. call'[h] = n
    BY <1>7
  <2> HIDE DEF n
  <2> QED BY <1>1, <1>3, <2>1, <2>2
<1> QED BY <1>1, <1>3, <1>4, <1>5, <1>6, <1>8

\* And one that does not is answered.
LEMMA ServePollAnswers ==
  ASSUME PairInv, NEW h \in Call, ServePoll(h), minted' = minted
  PROVE  /\ call[h].code \in Code /\ Known(call[h].code)
         /\ call[h].kind = "poll" /\ call[h].pc = "begin" /\ call[h].result = "none" /\ Same(h)
         /\ call'[h].kind = "poll" /\ call'[h].pc = "answer" /\ call'[h].code = call[h].code
         /\ call'[h].result \in {"gone", "pending"}
<1>1. /\ call[h].code \in Code /\ Known(call[h].code)
      /\ call[h].kind = "poll" /\ call[h].pc = "begin" /\ Same(h)
      /\ \/ \E r \in {"gone", "pending"} : call'[h] = [call[h] EXCEPT !.pc = "answer", !.result = r]
         \/ minted[call[h].code] < MaxIssue /\ minted' = [minted EXCEPT ![call[h].code] = @ + 1]
  BY ServePollIs
<1>2. CallKnows(call[h]) /\ call[h] \in CallRow /\ PairTypeOK
  BY DEF PairInv, HandlersKnow, PairTypeOK
<1>3. ~(minted[call[h].code] < MaxIssue /\ minted' = [minted EXCEPT ![call[h].code] = @ + 1])
  BY <1>1, <1>2 DEF PairTypeOK
<1>4. PICK r \in {"gone", "pending"} : call'[h] = [call[h] EXCEPT !.pc = "answer", !.result = r]
  BY <1>1, <1>3
<1>5. call[h].result = "none"
  BY <1>1, <1>2 DEF CallKnows
<1> QED BY <1>1, <1>2, <1>4, <1>5 DEF CallRow

LEMMA ServePollKnows ==
  ASSUME PairInv, Grow, NEW h \in Call, ServePoll(h)
  PROVE  HandlersKnow'
<1> DEFINE c == call[h].code
<1>1. CASE minted' = minted
  <2>1. /\ c \in Code /\ Stays(c) /\ Same(h)
        /\ call'[h].kind = "poll" /\ call'[h].pc = "answer" /\ call'[h].code = c
        /\ call'[h].result \in {"gone", "pending"}
    BY <1>1, ServePollAnswers, KnownStays
  <2>2. CallKnows(call[h])'
    BY <2>1 DEF CallKnows, Approved, Known, Stays
  <2> QED BY <2>1, <2>2, HandlersStep
<1>2. CASE minted' # minted
  <2>1. /\ c \in Code /\ minted' = [minted EXCEPT ![c] = 1] /\ minted \in [Code -> 0..MaxIssue]
        /\ Same(h) /\ call'[h].kind = "poll" /\ call'[h].pc = "save" /\ call'[h].result = "none"
        /\ call'[h].code = c /\ call'[h].account = pairs[c].approved
        /\ call'[h].inst = pairs[c].inst /\ call'[h].token = <<c, 1>>
        /\ pairs[c].approved \in Account /\ pairs[c].inst \in Inst
    BY <1>2, ServePollMints DEF PairInv, PairTypeOK
  <2>2. pairs' = pairs /\ Stays(c)
    BY <2>1, PairRows, KnownStays DEF ServePoll, PairInv
  <2>3. CallKnows(call[h])'
    BY <2>1, <2>2 DEF CallKnows, Known, Stays
  <2> QED BY <2>1, <2>3, HandlersStep
<1> QED BY <1>1, <1>2

\* The two steps of a poll that has its token.
LEMMA SavingKnows ==
  ASSUME PairInv, Grow, NEW h \in Call, ServePollSave(h) \/ ServePollConsume(h)
  PROVE  /\ HandlersKnow'
         /\ Same(h) /\ call[h].kind = "poll" /\ call[h].code \in Code /\ Approved(call[h])
         /\ call'[h].kind = "poll" /\ call'[h].code = call[h].code /\ call'[h].token = call[h].token
         /\ Approved(call'[h]) /\ Saved(h)' /\ ~Saving(h)'
<1> DEFINE k == call[h]
<1>1. /\ k.kind = "poll" /\ k.code \in Code /\ k.pc \in {"save", "consume"} /\ Same(h)
      /\ \/ call'[h] = [k EXCEPT !.pc = "consume"] /\ k.pc = "save"
         \/ call'[h] = [k EXCEPT !.pc = "answer", !.result = "approved"]
  BY ServePollSaveIs, ServePollConsumeIs
<1>2. CallKnows(k) /\ k \in CallRow
  BY DEF PairInv, HandlersKnow, PairTypeOK
<1>3. /\ call'[h].kind = "poll" /\ call'[h].code = k.code /\ call'[h].token = k.token
      /\ call'[h].account = k.account /\ call'[h].inst = k.inst
      /\ \/ call'[h].pc = "consume" /\ call'[h].result = k.result
         \/ call'[h].pc = "answer" /\ call'[h].result = "approved"
  BY <1>1, <1>2 DEF CallRow
<1>4. /\ k.result = "none" /\ Known(k.code) /\ minted[k.code] = 1 /\ k.token = <<k.code, 1>>
      /\ k.account \in Account /\ pairs[k.code].approved = k.account /\ pairs[k.code].inst = k.inst
  BY <1>1, <1>2 DEF CallKnows, Approved
<1>5. /\ Stays(k.code) /\ minted'[k.code] = 1
      /\ pairs'[k.code].approved = k.account /\ pairs'[k.code].inst = k.inst
  BY <1>1, <1>4, KnownStays, PairingAssumption DEF Grow, PairingAssumption
<1>6. CallKnows(call[h])'
  BY <1>1, <1>3, <1>4, <1>5 DEF CallKnows, Approved, Known, Stays
<1>7. Approved(call[h]) /\ Approved(call'[h]) /\ Saved(h)' /\ ~Saving(h)'
  BY <1>1, <1>3 DEF Approved, Saved, Saving
<1> QED BY <1>1, <1>3, <1>6, <1>7, HandlersStep

LEMMA ServeApproveKnows ==
  ASSUME PairInv, Grow, NEW h \in Call, ServeApprove(h) \/ ServeApproveUpdate(h)
  PROVE  /\ HandlersKnow' /\ Same(h) /\ call[h].kind = "approve"
         /\ call'[h].kind \in {"none", "approve"} /\ call'[h].result = "none"
<1>1. /\ Same(h) /\ call[h].kind = "approve"
      /\ call'[h] = IdleCall \/ call'[h] = [call[h] EXCEPT !.pc = "update"]
  BY ServeApproveIs, ServeApproveUpdateIs
<1>2. CallKnows(call[h]) /\ call[h] \in CallRow
  BY DEF PairInv, HandlersKnow, PairTypeOK
<1>3. Stays(call[h].code) /\ call[h].result = "none"
  BY <1>1, <1>2, KnownStays DEF CallKnows
<1>4. CASE call'[h] = IdleCall
  BY <1>1, <1>4, IdleKnows, HandlersStep DEF IdleCall
<1>5. CASE call'[h] = [call[h] EXCEPT !.pc = "update"]
  <2>1. /\ call'[h].kind = "approve" /\ call'[h].pc = "update" /\ call'[h].result = "none"
        /\ call'[h].code = call[h].code /\ call'[h].account = call[h].account
    BY <1>1, <1>2, <1>3, <1>5 DEF CallRow
  <2>2. CallKnows(call[h])'
    BY <1>1, <1>2, <1>3, <2>1 DEF CallKnows, Known, Stays
  <2> QED BY <1>1, <2>1, <2>2, HandlersStep
<1> QED BY <1>1, <1>4, <1>5

LEMMA ServeRevokeKnows ==
  ASSUME PairInv, Grow, NEW h \in Call, ServeRevoke(h) \/ ServeRevokeUpdate(h)
  PROVE  /\ HandlersKnow' /\ Same(h) /\ call[h].kind = "revoke"
         /\ call'[h].kind = "revoke" /\ call'[h].result \in {"none", "revoked", "rejected"}
<1>1. /\ Same(h) /\ call[h].kind = "revoke"
      /\ \/ call'[h] = [call[h] EXCEPT !.pc = "update"]
         \/ \E r \in {"revoked", "rejected"} : call'[h] = [call[h] EXCEPT !.pc = "answer", !.result = r]
  BY ServeRevokeIs, ServeRevokeUpdateIs
<1>2. CallKnows(call[h]) /\ call[h] \in CallRow
  BY DEF PairInv, HandlersKnow, PairTypeOK
<1>3. /\ call'[h].kind = "revoke" /\ call'[h].pc \in {"update", "answer"}
      /\ call'[h].token = call[h].token /\ call'[h].result \in {call[h].result, "revoked", "rejected"}
  BY <1>1, <1>2 DEF CallRow
<1>4. call'[h].result \in {"none", "revoked", "rejected"}
  BY <1>1, <1>2, <1>3 DEF CallKnows
<1>5. CallKnows(call[h])'
  BY <1>1, <1>2, <1>3, <1>4 DEF CallKnows
<1> QED BY <1>1, <1>3, <1>4, <1>5, HandlersStep

\* A handler that ends is idle, and one nobody has called knows its request.
LEMMA EndKnows ==
  ASSUME PairInv, Grow, NEW h \in Call, Same(h), call'[h] = IdleCall
  PROVE  HandlersKnow'
BY IdleKnows, HandlersStep

LEMMA SameKnows ==
  ASSUME PairInv, Grow, call' = call
  PROVE  HandlersKnow'
BY KnowledgeKept DEF HandlersKnow

\* The row of handler h has become a request.
StartOf(i) == [IdleCall EXCEPT !.kind = "start", !.pc = "begin", !.inst = i]
PollOf(c) == [IdleCall EXCEPT !.kind = "poll", !.pc = "begin", !.code = c]
RevokeOf(i, t) == [IdleCall EXCEPT !.kind = "revoke", !.pc = "begin", !.inst = i, !.token = t]
ApproveOf(c, a) == [IdleCall EXCEPT !.kind = "approve", !.pc = "begin", !.code = c, !.account = a]

Request(h) ==
  \/ \E i \in Inst : call'[h] = StartOf(i)
  \/ \E i \in Inst, t \in Token : call'[h] = RevokeOf(i, t)
  \/ \E c \in Code : Known(c) /\ call'[h] = PollOf(c)
  \/ \E c \in Code, a \in Account : Known(c) /\ call'[h] = ApproveOf(c, a)

LEMMA RequestKnows ==
  ASSUME PairInv, Grow, NEW h \in Call, Same(h), Request(h)
  PROVE  HandlersKnow'
<1>1. CASE \E i \in Inst : call'[h] = StartOf(i)
  <2>1. CallKnows(call[h])'
    BY <1>1 DEF CallKnows, IdleCall, StartOf
  <2> QED BY <2>1, HandlersStep
<1>2. CASE \E i \in Inst, t \in Token : call'[h] = RevokeOf(i, t)
  <2>1. CallKnows(call[h])'
    BY <1>2 DEF CallKnows, IdleCall, RevokeOf
  <2> QED BY <2>1, HandlersStep
<1>3. CASE \E c \in Code : Known(c) /\ call'[h] = PollOf(c)
  <2>1. PICK c \in Code : Known(c) /\ call'[h] = PollOf(c)
    BY <1>3
  <2>2. Stays(c)
    BY <2>1, KnownStays
  <2>3. CallKnows(call[h])'
    BY <2>1, <2>2 DEF CallKnows, IdleCall, PollOf, Approved, Known, Stays
  <2> QED BY <2>3, HandlersStep
<1>4. CASE \E c \in Code, a \in Account : Known(c) /\ call'[h] = ApproveOf(c, a)
  <2>1. PICK c \in Code, a \in Account : Known(c) /\ call'[h] = ApproveOf(c, a)
    BY <1>4
  <2>2. Stays(c)
    BY <2>1, KnownStays
  <2>3. CallKnows(call[h])'
    BY <2>1, <2>2 DEF CallKnows, IdleCall, ApproveOf, Known, Stays
  <2> QED BY <2>3, HandlersStep
<1> QED BY <1>1, <1>2, <1>3, <1>4 DEF Request

-----------------------------------------------------------------------------
(* What a companion knows of the request it waits for, and that a code has *)
(* one poll at most.                                                       *)

\* Nothing that companion j knows is disturbed.
Keeps(j) ==
  /\ comp'[j] = comp[j]
  /\ comp[j].call # NoCall =>
       LET k == call[comp[j].call]
           n == call'[comp[j].call]
       IN /\ n.kind = k.kind
          /\ k.kind = "start" => n.inst = k.inst
          /\ k.kind = "poll" => n.code = k.code

\* Companion j waits for no request.
Rests(j) ==
  /\ comp'[j].call = NoCall
  /\ \/ comp'[j].pc = "idle"
     \/ comp'[j].pc = "waiting" /\ comp'[j].code \in Code /\ pairs'[comp'[j].code].inst = j

\* Companion i begins to wait for a handler nobody waited for.
Asks(i, h) ==
  /\ comp'[i].call = h /\ \A j \in Inst : comp[j].call # h
  /\ \/ comp'[i].pc = "starting" /\ call'[h].kind = "start" /\ call'[h].inst = i
     \/ /\ comp'[i].pc = "polling" /\ call'[h].kind = "poll" /\ call'[h].code = comp'[i].code
        /\ comp'[i].code \in Code /\ pairs'[comp'[i].code].inst = i
     \/ comp'[i].pc = "revoking" /\ call'[h].kind = "revoke"

LEMMA CodeKept ==
  ASSUME PairInv, Grow, NEW j \in Inst, comp[j].pc \in {"waiting", "polling"}
  PROVE  comp[j].code \in Code /\ pairs'[comp[j].code].inst = j
<1>1. comp[j].code \in Code /\ pairs[comp[j].code].inst = j /\ PairTypeOK
  BY DEF PairInv, CompanionsKnow, CompKnows
<1> QED BY <1>1, PairRows, KnownStays

LEMMA KeepingKnows ==
  ASSUME PairInv, Grow, NEW j \in Inst, Keeps(j),
         \A m \in Inst : comp'[m].call = comp[j].call /\ comp[j].call # NoCall => m = j
  PROVE  CompKnows(j)'
<1>1. CompKnows(j)
  BY DEF PairInv, CompanionsKnow
<1>2. comp[j].pc \in {"waiting", "polling"} =>
        comp[j].code \in Code /\ pairs'[comp[j].code].inst = j
  BY CodeKept
<1>3. comp'[j] = comp[j]
  BY DEF Keeps
<1>4. comp[j].pc \in {"starting", "polling", "revoking"} => comp[j].call # NoCall
  BY <1>1 DEF CompKnows
<1>5. /\ comp[j].pc = "starting" => call'[comp[j].call].kind = "start" /\ call'[comp[j].call].inst = j
      /\ comp[j].pc = "polling" => call'[comp[j].call].kind = "poll"
                                   /\ call'[comp[j].call].code = comp[j].code
      /\ comp[j].pc = "revoking" => call'[comp[j].call].kind = "revoke"
  BY <1>1, <1>4 DEF CompKnows, Keeps
<1> QED BY <1>1, <1>2, <1>3, <1>5 DEF CompKnows

LEMMA RestingKnows ==
  ASSUME PairInv, NEW j \in Inst, Rests(j)
  PROVE  CompKnows(j)'
BY DEF Rests, CompKnows

LEMMA Quietly ==
  ASSUME PairInv, Grow, \A j \in Inst : Keeps(j) \/ Rests(j)
  PROVE  CompanionsKnow'
<1>1. ASSUME NEW j \in Inst, Keeps(j) PROVE CompKnows(j)'
  <2>1. ASSUME NEW m \in Inst, comp'[m].call = comp[j].call, comp[j].call # NoCall
        PROVE  m = j
    <3>1. comp'[m] = comp[m]
      BY <2>1 DEF Keeps, Rests
    <3> QED BY <2>1, <3>1 DEF PairInv, CompanionsKnow, CompKnows
  <2> QED BY <1>1, <2>1, KeepingKnows
<1> QED BY <1>1, RestingKnows DEF CompanionsKnow

LEMMA Asking ==
  ASSUME PairInv, Grow, NEW i \in Inst, NEW h \in Call, Asks(i, h),
         \A j \in Inst : j # i => Keeps(j)
  PROVE  CompanionsKnow'
<1>1. ASSUME NEW j \in Inst, j # i PROVE CompKnows(j)'
  <2>1. ASSUME NEW m \in Inst, comp'[m].call = comp[j].call, comp[j].call # NoCall
        PROVE  m = j
    <3>1. CASE m = i
      BY <2>1, <3>1 DEF Asks
    <3>2. CASE m # i
      BY <2>1, <3>2 DEF Keeps, PairInv, CompanionsKnow, CompKnows
    <3> QED BY <3>1, <3>2
  <2> QED BY <1>1, <2>1, KeepingKnows
<1>2. \A m \in Inst : comp'[m].call = h => m = i
  BY DEF Asks, Keeps
<1>3. h # NoCall
  BY PairingAssumption DEF PairingAssumption
<1>4. CompKnows(i)'
  BY <1>2, <1>3 DEF Asks, CompKnows
<1> QED BY <1>1, <1>4 DEF CompanionsKnow

\* Companions wait for requests of their own kinds.
LEMMA NotWaited ==
  ASSUME PairInv, NEW h \in Call, call[h].kind \notin {"start", "poll", "revoke"}
  PROVE  \A j \in Inst : comp[j].call # h
<1> SUFFICES ASSUME NEW j \in Inst, comp[j].call = h PROVE FALSE
  OBVIOUS
<1>1. h # NoCall
  BY PairingAssumption DEF PairingAssumption
<1>2. comp[j].pc \in {"starting", "polling", "revoking"}
  BY <1>1, Waiting
<1> QED BY <1>2 DEF PairInv, CompanionsKnow, CompKnows

LEMMA RowKeeps ==
  ASSUME PairInv, NEW h \in Call, Same(h), comp' = comp, call'[h].kind = call[h].kind,
         call[h].kind = "start" => call'[h].inst = call[h].inst,
         call[h].kind = "poll" => call'[h].code = call[h].code
  PROVE  \A j \in Inst : Keeps(j)
BY Waiting DEF Keeps, Same

LEMMA OthersKeep ==
  ASSUME PairInv, NEW h \in Call, Same(h), NEW j \in Inst, comp'[j] = comp[j], comp[j].call # h
  PROVE  Keeps(j)
BY Waiting DEF Keeps, Same

-----------------------------------------------------------------------------

\* No poll, no started code and no waiting companion is new.
Fewer ==
  /\ minted' = minted
  /\ \A h \in Call, c \in Code :
       /\ call'[h].kind = "poll" /\ call'[h].code = c => Polls(h, c)
       /\ Polls(h, c) /\ Approved(call[h]) /\ call'[h].kind = "poll" => Approved(call'[h])
       /\ call'[h].result = "started" /\ call'[h].code = c => Starts(h, c)
  /\ \A i \in Inst, c \in Code :
       comp'[i].pc = "waiting" /\ comp'[i].code = c => Waits(i, c)

LEMMA FewerOnce ==
  ASSUME PairInv, Grow, Fewer
  PROVE  OncePerCode'
<1> SUFFICES ASSUME NEW c \in Code PROVE OnePoll(c)' /\ Spent(c)'
  BY DEF OncePerCode
<1>1. OnePoll(c) /\ Spent(c)
  BY DEF PairInv, OncePerCode
<1>2. \A h \in Call : (Polls(h, c)' => Polls(h, c)) /\ (Starts(h, c)' => Starts(h, c))
  BY DEF Fewer, Polls, Starts
<1>3. \A i \in Inst : Waits(i, c)' => Waits(i, c)
  BY DEF Fewer, Waits
<1>4. OnePoll(c)'
  BY <1>1, <1>2, <1>3 DEF OnePoll
<1>5. ASSUME minted'[c] # 0 PROVE minted'[c] = 1 /\ Known(c)'
  <2>1. minted[c] = 1 /\ Known(c)
    BY <1>1, <1>5 DEF Spent, Fewer
  <2> QED BY <2>1, KnownStays DEF Fewer, Stays, Known
<1>6. ASSUME minted'[c] # 0, NEW h \in Call, Polls(h, c)' PROVE Approved(call[h])'
  <2>1. Polls(h, c) /\ Approved(call[h])
    BY <1>1, <1>2, <1>6 DEF Spent, Fewer
  <2>2. Approved(call'[h])
    BY <2>1, <1>6 DEF Fewer, Polls
  <2> QED BY <2>2 DEF Approved
<1>7. minted' = minted
  BY DEF Fewer
<1> QED BY <1>1, <1>2, <1>3, <1>4, <1>5, <1>6, <1>7 DEF Spent

LEMMA RowFewer ==
  ASSUME PairInv, NEW h \in Call, Same(h), comp' = comp, minted' = minted,
         call'[h].kind = "poll" => /\ call[h].kind = "poll" /\ call'[h].code = call[h].code
                                   /\ Approved(call[h]) => Approved(call'[h]),
         call'[h].result = "started" => call[h].result = "started" /\ call'[h].code = call[h].code
  PROVE  Fewer
BY DEF Fewer, Same, Polls, Starts, Waits

\* A code that is not stored yet is nobody's.
LEMMA Fresh ==
  ASSUME PairInv, NEW c \in Code, ~Known(c)
  PROVE  /\ minted[c] = 0
         /\ \A h \in Call : ~Polls(h, c) /\ ~Starts(h, c)
         /\ \A i \in Inst : ~Waits(i, c)
<1>1. minted[c] = 0
  BY DEF PairInv, OncePerCode, Spent
<1>2. ASSUME NEW h \in Call PROVE ~Polls(h, c) /\ ~Starts(h, c)
  <2>1. CallKnows(call[h]) /\ call[h] \in CallRow /\ PairTypeOK
    BY DEF PairInv, HandlersKnow, PairTypeOK
  <2>2. ~Polls(h, c)
    BY <2>1 DEF CallKnows, Polls
  <2>3. call[h].result = "started" => call[h].kind = "start"
    BY <2>1 DEF CallKnows, CallRow, IdleCall
  <2> QED BY <2>1, <2>2, <2>3, PairRows DEF CallKnows, Starts
<1>3. ASSUME NEW i \in Inst PROVE ~Waits(i, c)
  <2>1. CompKnows(i) /\ PairTypeOK
    BY DEF PairInv, CompanionsKnow
  <2> QED BY <2>1, PairRows DEF CompKnows, Waits
<1> QED BY <1>1, <1>2, <1>3

-----------------------------------------------------------------------------
(* Action by action: the companions know what they must, and a code still  *)
(* has one poll.                                                           *)

Steady == CompanionsKnow' /\ OncePerCode'

LEMMA SteadyRow ==
  ASSUME PairInv, Grow, NEW h \in Call, Same(h), comp' = comp, minted' = minted,
         call'[h].kind = call[h].kind,
         call[h].kind = "start" => call'[h].inst = call[h].inst,
         call[h].kind = "poll" =>
           call'[h].code = call[h].code /\ (Approved(call[h]) => Approved(call'[h])),
         call'[h].result = "started" => call[h].result = "started" /\ call'[h].code = call[h].code
  PROVE  Steady
<1>1. CompanionsKnow'
  BY RowKeeps, Quietly
<1>2. Fewer
  BY RowFewer
<1> QED BY <1>1, <1>2, FewerOnce DEF Steady

\* A handler nobody waits for becomes idle, or takes an approval.
LEMMA SteadyApart ==
  ASSUME PairInv, Grow, NEW h \in Call, Same(h), comp' = comp, minted' = minted,
         \A j \in Inst : comp[j].call # h,
         call'[h].kind \in {"none", "approve"}, call'[h].result = "none"
  PROVE  Steady
<1>1. CompanionsKnow'
  BY OthersKeep, Quietly
<1>2. Fewer
  BY RowFewer
<1> QED BY <1>1, <1>2, FewerOnce DEF Steady

LEMMA LimitedSteady ==
  ASSUME PairInv, Grow, NEW h \in Call, Limited(h)
  PROVE  Steady
<1>1. /\ Same(h) /\ call[h].kind \in {"start", "poll"} /\ call[h].pc = "begin"
      /\ call'[h] = [call[h] EXCEPT !.pc = "answer", !.result = "rejected"]
      /\ comp' = comp /\ minted' = minted
  BY LimitedIs DEF Limited
<1>2. CallKnows(call[h]) /\ call[h] \in CallRow
  BY DEF PairInv, HandlersKnow, PairTypeOK
<1>3. /\ call'[h].kind = call[h].kind /\ call'[h].result = "rejected"
      /\ call'[h].code = call[h].code /\ call'[h].inst = call[h].inst
  BY <1>1, <1>2 DEF CallRow
<1>4. call[h].kind = "poll" => ~Approved(call[h])
  BY <1>1, <1>2 DEF CallKnows, Approved
<1> QED BY <1>1, <1>3, <1>4, SteadyRow

LEMMA ServeStartSteady ==
  ASSUME PairInv, Grow, NEW h \in Call, ServeStart(h)
  PROVE  Steady
<1>1. PICK c \in Code :
        /\ ~Known(c) /\ Same(h)
        /\ call'[h] = [[call[h] EXCEPT !.pc = "answer", !.result = "started"] EXCEPT !.code = c]
  BY ServeStartIs
<1>2. call[h].kind = "start" /\ call[h] \in CallRow /\ comp' = comp /\ minted' = minted
  BY DEF ServeStart, PairInv, PairTypeOK
<1>3. /\ call'[h].kind = "start" /\ call'[h].code = c /\ call'[h].inst = call[h].inst
  BY <1>1, <1>2 DEF CallRow
<1>4. CompanionsKnow'
  BY <1>1, <1>2, <1>3, RowKeeps, Quietly
<1>5. ASSUME NEW b \in Code PROVE OnePoll(b)' /\ Spent(b)'
  <2>1. \A g \in Call : (Polls(g, b)' => Polls(g, b)) /\ (Starts(g, b)' => Starts(g, b) \/ (b = c /\ g = h))
    BY <1>1, <1>3 DEF Polls, Starts, Same
  <2>2. \A i \in Inst : Waits(i, b)' => Waits(i, b)
    BY <1>2 DEF Waits
  <2>3. /\ minted[c] = 0 /\ \A g \in Call : ~Polls(g, c) /\ ~Starts(g, c)
        /\ \A i \in Inst : ~Waits(i, c)
    BY <1>1, Fresh
  <2>4. OnePoll(b) /\ Spent(b)
    BY DEF PairInv, OncePerCode
  <2>5. OnePoll(b)'
    BY <2>1, <2>2, <2>3, <2>4 DEF OnePoll
  <2>6. ASSUME minted'[b] # 0 PROVE minted'[b] = 1 /\ Known(b)' /\ b # c
    <3>1. minted[b] = 1 /\ Known(b) /\ b # c
      BY <2>3, <2>4, <2>6, <1>2 DEF Spent
    <3> QED BY <3>1, <1>2, KnownStays DEF Stays, Known
  <2>7. \A g \in Call : Polls(g, b)' => call'[g] = call[g]
    BY <1>1, <1>3 DEF Polls, Same
  <2>8. Spent(b)'
    BY <2>1, <2>2, <2>4, <2>6, <2>7, <1>2 DEF Spent, Approved
  <2> QED BY <2>5, <2>8
<1> QED BY <1>4, <1>5 DEF Steady, OncePerCode

LEMMA ServePollSteady ==
  ASSUME PairInv, Grow, NEW h \in Call, ServePoll(h)
  PROVE  Steady
<1> DEFINE c == call[h].code
<1>1. CallKnows(call[h]) /\ comp' = comp
  BY DEF PairInv, HandlersKnow, ServePoll
<1>2. CASE minted' = minted
  <2>1. /\ call[h].kind = "poll" /\ call[h].pc = "begin" /\ call[h].result = "none" /\ Same(h)
        /\ call'[h].kind = "poll" /\ call'[h].code = c /\ call'[h].result \in {"gone", "pending"}
    BY <1>2, ServePollAnswers
  <2>2. ~Approved(call[h])
    BY <2>1 DEF Approved
  <2> QED BY <1>1, <1>2, <2>1, <2>2, SteadyRow
<1>3. CASE minted' # minted
  <2>1. /\ c \in Code /\ minted' = [minted EXCEPT ![c] = 1] /\ minted \in [Code -> 0..MaxIssue]
        /\ call[h].kind = "poll" /\ Same(h) /\ call'[h].kind = "poll" /\ call'[h].pc = "save"
        /\ call'[h].result = "none" /\ call'[h].code = c
    BY <1>3, ServePollMints DEF PairInv, PairTypeOK
  <2>2. CompanionsKnow'
    BY <1>1, <2>1, RowKeeps, Quietly
  <2>3. Known(c)
    BY <1>1, <2>1 DEF CallKnows
  <2>4. ASSUME NEW b \in Code PROVE OnePoll(b)' /\ Spent(b)'
    <3>1. \A g \in Call : /\ Polls(g, b)' => Polls(g, b)
                          /\ Starts(g, b)' => Starts(g, b)
      BY <2>1 DEF Polls, Starts, Same
    <3>2. \A i \in Inst : Waits(i, b)' => Waits(i, b)
      BY <1>1 DEF Waits
    <3>3. OnePoll(b) /\ Spent(b) /\ Polls(h, c) /\ OnePoll(c)
      BY <2>1 DEF PairInv, OncePerCode, Polls
    <3>4. OnePoll(b)'
      BY <3>1, <3>2, <3>3 DEF OnePoll
    <3>5. CASE b = c
      <4>1. minted'[c] = 1 /\ Known(c)'
        BY <2>1, <2>3, KnownStays DEF Stays, Known
      <4>2. \A g \in Call : ~Starts(g, c) /\ (Polls(g, c) => g = h)
        BY <3>3 DEF OnePoll
      <4>3. Approved(call[h])'
        BY <2>1 DEF Approved
      <4>4. \A i \in Inst : ~Waits(i, c)
        BY <3>3 DEF OnePoll
      <4>5. /\ \A g \in Call : ~Starts(g, b)' /\ (Polls(g, b)' => Approved(call[g])')
            /\ \A i \in Inst : ~Waits(i, b)'
        BY <3>1, <3>2, <3>5, <4>2, <4>3, <4>4
      <4>6. minted'[b] = 1 /\ Known(b)'
        BY <3>5, <4>1, <2>1, <2>3, KnownStays DEF Stays, Known
      <4> QED BY <3>4, <4>5, <4>6 DEF Spent
    <3>6. CASE b # c
      <4>1. minted'[b] = minted[b]
        BY <2>1, <3>6
      <4>2. minted[b] # 0 => minted[b] = 1 /\ Known(b)'
        BY <3>3, KnownStays DEF Spent, Stays, Known
      <4>3. \A g \in Call : Polls(g, b)' => call'[g] = call[g]
        BY <2>1, <3>6 DEF Polls, Same
      <4>4. Spent(b)'
        BY <3>1, <3>2, <3>3, <4>1, <4>2, <4>3 DEF Spent, Approved
      <4> QED BY <3>4, <4>4
    <3> QED BY <3>5, <3>6
  <2> QED BY <2>2, <2>4 DEF Steady, OncePerCode
<1> QED BY <1>2, <1>3

LEMMA SavingSteady ==
  ASSUME PairInv, Grow, NEW h \in Call, ServePollSave(h) \/ ServePollConsume(h)
  PROVE  Steady
<1>1. /\ Same(h) /\ call[h].kind = "poll"
      /\ call'[h].kind = "poll" /\ call'[h].code = call[h].code /\ Approved(call'[h])
      /\ HandlersKnow'
  BY SavingKnows
<1>2. comp' = comp /\ minted' = minted
  BY DEF ServePollSave, ServePollConsume
<1>3. call'[h].result # "started"
  BY <1>1 DEF HandlersKnow, CallKnows
<1> QED BY <1>1, <1>2, <1>3, SteadyRow

LEMMA ServeApproveSteady ==
  ASSUME PairInv, Grow, NEW h \in Call, ServeApprove(h) \/ ServeApproveUpdate(h)
  PROVE  Steady
<1>1. /\ Same(h) /\ call[h].kind = "approve"
      /\ call'[h].kind \in {"none", "approve"} /\ call'[h].result = "none"
  BY ServeApproveKnows
<1>2. comp' = comp /\ minted' = minted
  BY DEF ServeApprove, ServeApproveUpdate
<1> QED BY <1>1, <1>2, NotWaited, SteadyApart

LEMMA ServeRevokeSteady ==
  ASSUME PairInv, Grow, NEW h \in Call, ServeRevoke(h) \/ ServeRevokeUpdate(h)
  PROVE  Steady
<1>1. /\ Same(h) /\ call[h].kind = "revoke"
      /\ call'[h].kind = "revoke" /\ call'[h].result \in {"none", "revoked", "rejected"}
  BY ServeRevokeKnows
<1>2. comp' = comp /\ minted' = minted
  BY DEF ServeRevoke, ServeRevokeUpdate
<1> QED BY <1>1, <1>2, SteadyRow

LEMMA ForgetSteady ==
  ASSUME PairInv, Grow, NEW h \in Call, Forget(h)
  PROVE  Steady
<1>1. Same(h) /\ call'[h].kind = "none" /\ call'[h].result = "none"
  BY ForgetIs DEF IdleCall
<1>2. comp' = comp /\ minted' = minted /\ \A j \in Inst : comp[j].call # h
  BY DEF Forget
<1> QED BY <1>1, <1>2, SteadyApart

\* A handler is idle again and whoever waited for it rests.
LEMMA DieSteady ==
  ASSUME PairInv, Grow, NEW h \in Call, Die(h)
  PROVE  Steady
<1>1. Same(h) /\ call'[h].kind = "none" /\ call'[h].result = "none" /\ minted' = minted
  BY DieIs DEF IdleCall, Die
<1>2. ASSUME NEW j \in Inst PROVE comp'[j] = IF comp[j].call = h THEN IdleComp ELSE comp[j]
  BY DEF Die
<1>3. ASSUME NEW j \in Inst PROVE Keeps(j) \/ Rests(j)
  <2>1. CASE comp[j].call = h
    BY <1>2, <2>1 DEF Rests, IdleComp
  <2>2. CASE comp[j].call # h
    BY <1>1, <1>2, <2>2, OthersKeep
  <2> QED BY <2>1, <2>2
<1>4. Fewer
  BY <1>1, <1>2 DEF Fewer, Same, Polls, Starts, Waits, IdleComp
<1> QED BY <1>3, <1>4, Quietly, FewerOnce DEF Steady

\* A companion asks for a code, or gives its credential back.
LEMMA AskSteady ==
  ASSUME PairInv, Grow, NEW i \in Inst, NEW h \in Call, StartPair(i, h) \/ SendRevoke(i, h)
  PROVE  Steady
<1>1. /\ call[h] = IdleCall /\ Same(h) /\ SameComp(i) /\ comp[i] \in CompRow
      /\ \/ /\ call'[h] = [IdleCall EXCEPT !.kind = "start", !.pc = "begin", !.inst = i]
            /\ comp'[i] = [comp[i] EXCEPT !.pc = "starting", !.call = h]
         \/ /\ call'[h] = [IdleCall EXCEPT !.kind = "revoke", !.pc = "begin", !.inst = i, !.token = cred[i]]
            /\ comp'[i] = [comp[i] EXCEPT !.pc = "revoking", !.call = h]
  <2>1. CASE StartPair(i, h)
    BY <2>1, StartPairIs DEF PairInv, PairTypeOK
  <2>2. CASE SendRevoke(i, h)
    BY <2>2, SendRevokeIs DEF PairInv, PairTypeOK
  <2> QED BY <2>1, <2>2
<1>2. /\ comp'[i].call = h
      /\ \/ call'[h].kind = "start" /\ call'[h].inst = i /\ comp'[i].pc = "starting"
         \/ call'[h].kind = "revoke" /\ comp'[i].pc = "revoking"
      /\ call'[h].result = "none"
  BY <1>1 DEF CompRow, IdleCall
<1>3. \A j \in Inst : comp[j].call # h
  BY <1>1, NotWaited DEF IdleCall
<1>4. Asks(i, h) /\ \A j \in Inst : j # i => Keeps(j)
  BY <1>1, <1>2, <1>3, OthersKeep DEF Asks, SameComp
<1>5. minted' = minted
  BY DEF StartPair, SendRevoke
<1>6. Fewer
  BY <1>1, <1>2, <1>5 DEF Fewer, Same, SameComp, Polls, Starts, Waits
<1> QED BY <1>4, <1>6, Asking, FewerOnce DEF Steady

\* A waiting companion polls its code, which nobody else polls.
LEMMA SendPollSteady ==
  ASSUME PairInv, Grow, NEW i \in Inst, NEW h \in Call, SendPoll(i, h)
  PROVE  Steady
<1> DEFINE c == comp[i].code
<1>1. /\ call[h] = IdleCall /\ Same(h) /\ SameComp(i) /\ comp[i] \in CompRow
      /\ comp[i].pc = "waiting" /\ c \in Code
      /\ call'[h] = [IdleCall EXCEPT !.kind = "poll", !.pc = "begin", !.code = c]
      /\ comp'[i] = [comp[i] EXCEPT !.pc = "polling", !.call = h]
  BY SendPollIs DEF PairInv, PairTypeOK
<1>2. /\ comp'[i].call = h /\ comp'[i].pc = "polling" /\ comp'[i].code = c
      /\ call'[h].kind = "poll" /\ call'[h].code = c /\ call'[h].result = "none"
      /\ Same(h) /\ SameComp(i)
  BY <1>1 DEF CompRow, IdleCall
<1>3. \A j \in Inst : comp[j].call # h
  BY <1>1, NotWaited DEF IdleCall
<1>4. pairs'[c].inst = i
  BY <1>1, CodeKept
<1>5. Asks(i, h) /\ \A j \in Inst : j # i => Keeps(j)
  BY <1>1, <1>2, <1>3, <1>4, OthersKeep DEF Asks, SameComp
<1>6. minted' = minted
  BY DEF SendPoll
<1>7. ASSUME NEW b \in Code PROVE OnePoll(b)' /\ Spent(b)'
  <2>1. OnePoll(b) /\ Spent(b) /\ Waits(i, c)
    BY <1>1 DEF PairInv, OncePerCode, Waits
  <2>2. \A g \in Call : /\ Polls(g, b)' => Polls(g, b) \/ (g = h /\ b = c)
                        /\ Starts(g, b)' => Starts(g, b)
    <3> HIDE DEF c
    <3> QED BY <1>2 DEF Polls, Starts, Same
  <2>3. \A j \in Inst : Waits(j, b)' => Waits(j, b) /\ j # i
    BY <1>2 DEF Waits, SameComp
  <2>4. b = c => (\A g \in Call : ~Polls(g, b) /\ ~Starts(g, b)) /\ minted[b] = 0
    BY <2>1 DEF OnePoll, Spent
  <2>5. b = c => \A j \in Inst : Waits(j, b) => j = i
    BY <1>1 DEF Waits, PairInv, CompanionsKnow, CompKnows
  <2>6. OnePoll(b)'
    BY <2>1, <2>2, <2>3, <2>4, <2>5 DEF OnePoll
  <2>7. minted[b] # 0 => minted[b] = 1 /\ Known(b)'
    BY <2>1, KnownStays DEF Spent, Stays, Known
  <2>8. \A g \in Call : Polls(g, b)' /\ b # c => call'[g] = call[g]
    <3> HIDE DEF c
    <3> QED BY <1>2 DEF Polls, Same
  <2>9. Spent(b)'
    BY <1>6, <2>1, <2>2, <2>3, <2>4, <2>7, <2>8 DEF Spent, Approved
  <2> QED BY <2>6, <2>9
<1> QED BY <1>5, <1>7, Asking DEF Steady, OncePerCode

\* An answer: "started" and "pending" make the companion wait for its code.
LEMMA ReceiveSteady ==
  ASSUME PairInv, Grow, NEW i \in Inst, Receive(i)
  PROVE  Steady
<1> DEFINE h == comp[i].call
           k == call[comp[i].call]
<1>1. /\ h \in Call /\ h # NoCall /\ k.pc = "answer" /\ Same(h) /\ call'[h] = IdleCall /\ SameComp(i)
      /\ \/ /\ k.kind = "start" /\ k.result = "started" /\ k.inst = i
            /\ comp'[i] = [pc |-> "waiting", code |-> k.code, call |-> NoCall]
         \/ /\ k.kind = "poll" /\ k.result = "pending" /\ k.code = comp[i].code
            /\ comp'[i] = [comp[i] EXCEPT !.pc = "waiting", !.call = NoCall]
         \/ k.result \notin {"started", "pending"} /\ comp'[i] = IdleComp
  BY ReceiveIs
<1>2. /\ CallKnows(k) /\ k \in CallRow /\ comp[i] \in CompRow /\ CompKnows(i) /\ PairTypeOK
      /\ comp[i].pc \in {"starting", "polling", "revoking"}
  BY <1>1, Waiting DEF PairInv, CompanionsKnow, PairTypeOK
<1>3. /\ comp'[i].call = NoCall
      /\ \/ /\ comp'[i].pc = "waiting" /\ comp'[i].code = k.code
            /\ \/ k.result = "started" /\ k.kind = "start" /\ k.inst = i
               \/ k.result = "pending" /\ k.kind = "poll" /\ k.code = comp[i].code
         \/ comp'[i].pc = "idle"
  <2>1. CASE comp'[i] = [pc |-> "waiting", code |-> k.code, call |-> NoCall]
    BY <1>1, <2>1 DEF IdleComp
  <2>2. CASE comp'[i] = [comp[i] EXCEPT !.pc = "waiting", !.call = NoCall]
             /\ k.kind = "poll" /\ k.result = "pending" /\ k.code = comp[i].code
    <3>1. comp'[i].call = NoCall /\ comp'[i].pc = "waiting" /\ comp'[i].code = comp[i].code
      BY <1>2, <2>2 DEF CompRow
    <3> QED BY <2>2, <3>1
  <2>3. CASE comp'[i] = IdleComp
    BY <2>3 DEF IdleComp
  <2> QED BY <1>1, <2>1, <2>2, <2>3
<1>4. minted' = minted
  BY DEF Receive
<1>5. Rests(i)
  <2>1. CASE comp'[i].pc = "idle"
    BY <1>3, <2>1 DEF Rests
  <2>2. CASE comp'[i].pc = "waiting" /\ k.result = "started" /\ k.kind = "start" /\ k.inst = i
    <3>1. k.code \in Code /\ pairs[k.code].inst = i
      BY <1>2, <2>2 DEF CallKnows
    <3>2. pairs'[k.code].inst = i
      BY <1>2, <3>1, PairRows, KnownStays
    <3> QED BY <1>3, <2>2, <3>1, <3>2 DEF Rests
  <2>3. CASE comp'[i].pc = "waiting" /\ k.result = "pending" /\ k.kind = "poll" /\ k.code = comp[i].code
    <3>1. comp[i].pc = "polling"
      BY <1>2, <2>3 DEF CompKnows
    <3> QED BY <1>3, <2>3, <3>1, CodeKept DEF Rests
  <2> QED BY <1>3, <2>1, <2>2, <2>3
<1>6. \A j \in Inst : j # i => comp[j].call # h
  BY <1>1, <1>2 DEF CompKnows
<1>7. \A j \in Inst : Keeps(j) \/ Rests(j)
  BY <1>1, <1>5, <1>6, OthersKeep DEF SameComp
<1>8. ASSUME NEW b \in Code PROVE OnePoll(b)' /\ Spent(b)'
  <2>1. OnePoll(b) /\ Spent(b)
    BY DEF PairInv, OncePerCode
  <2>2. \A g \in Call : /\ Polls(g, b)' => Polls(g, b) /\ g # h /\ call'[g] = call[g]
                        /\ Starts(g, b)' => Starts(g, b) /\ g # h
    BY <1>1 DEF Polls, Starts, Same, IdleCall
  <2>3. \A j \in Inst : Waits(j, b)' => \/ Waits(j, b)
                                        \/ /\ j = i /\ k.code = b
                                           /\ Starts(h, b) \/ (Polls(h, b) /\ k.result = "pending")
    BY <1>1, <1>3 DEF Waits, SameComp, Polls, Starts
  <2>4. Polls(h, b) => ~Starts(h, b)
    BY <2>1, <1>1 DEF OnePoll
  <2>5. OnePoll(b)'
    BY <1>1, <2>1, <2>2, <2>3 DEF OnePoll
  <2>6. minted[b] # 0 => minted[b] = 1 /\ Known(b)'
    BY <2>1, KnownStays DEF Spent, Stays, Known
  <2>7. k.kind = "poll" /\ k.result = "pending" => ~Approved(k)
    BY <1>1 DEF Approved
  <2>8. minted[b] # 0 => \A j \in Inst : ~Waits(j, b)'
    BY <1>1, <2>1, <2>3, <2>7 DEF Spent, Polls
  <2>9. Spent(b)'
    BY <1>4, <2>1, <2>2, <2>6, <2>8 DEF Spent, Approved
  <2> QED BY <2>5, <2>9
<1> QED BY <1>7, <1>8, Quietly DEF Steady, OncePerCode

\* A companion that gives up, or whose request is lost, rests.
LEMMA RestSteady ==
  ASSUME PairInv, Grow, NEW i \in Inst, GiveUp(i) \/ LoseAnswer(i)
  PROVE  Steady
<1>1. /\ SameComp(i) /\ comp'[i].call = NoCall /\ comp'[i].pc = "idle"
      /\ call' = call /\ minted' = minted
  BY GiveUpIs, LoseAnswerIs DEF GiveUp, LoseAnswer, IdleComp
<1>2. \A j \in Inst : Keeps(j) \/ Rests(j)
  BY <1>1 DEF Keeps, Rests, SameComp
<1>3. Fewer
  BY <1>1 DEF Fewer, SameComp, Polls, Starts, Waits
<1> QED BY <1>2, <1>3, Quietly, FewerOnce DEF Steady

LEMMA BrowserSteady ==
  ASSUME PairInv, Grow, NEW a \in Account, NEW c \in Code, NEW h \in Call, SendApprove(a, c, h)
  PROVE  Steady
<1>1. /\ Same(h) /\ call[h].kind = "none"
      /\ call'[h].kind = "approve" /\ call'[h].result = "none"
  <2>1. /\ Same(h) /\ call[h] = IdleCall
        /\ call'[h] = [IdleCall EXCEPT !.kind = "approve", !.pc = "begin", !.code = c, !.account = a]
    BY SendApproveIs
  <2> QED BY <2>1 DEF IdleCall
<1>2. comp' = comp /\ minted' = minted
  BY DEF SendApprove
<1> QED BY <1>1, <1>2, NotWaited, SteadyApart

LEMMA ExpireSteady ==
  ASSUME PairInv, Grow, call' = call, comp' = comp, minted' = minted
  PROVE  Steady
<1>1. \A j \in Inst : Keeps(j)
  BY DEF Keeps
<1>2. Fewer
  BY DEF Fewer, Polls, Starts, Waits
<1> QED BY <1>1, <1>2, Quietly, FewerOnce DEF Steady

-----------------------------------------------------------------------------
(* The tokens: what is stored, killed, held and pledged.                   *)

LEMMA TokenStays ==
  ASSUME PairInv, Grow, NEW t, TokenKnown(t)
  PROVE  TokenKnown(t)' /\ t[1] \in Code /\ t = <<t[1], 1>> /\ pairs'[t[1]].inst = pairs[t[1]].inst
<1>1. t \in Token /\ t[2] = 1 /\ minted[t[1]] = 1
  BY DEF TokenKnown
<1>2. t[1] \in Code /\ t = <<t[1], 1>>
  BY <1>1 DEF Token
<1>3. Known(t[1])
  BY <1>1, <1>2 DEF PairInv, OncePerCode, Spent
<1>4. minted'[t[1]] = 1
  BY <1>1, <1>2 DEF Grow
<1> QED BY <1>1, <1>2, <1>3, <1>4, KnownStays DEF TokenKnown

LEMMA DeviceStays ==
  ASSUME PairInv, Grow, NEW d \in devices
  PROVE  /\ d \in Device /\ TokenKnown(d.token)
         /\ pairs[d.token[1]].inst = d.inst
         /\ pairs'[d.token[1]].approved = d.account /\ pairs'[d.token[1]].inst = d.inst
<1>1. d \in Device /\ TokenKnown(d.token) /\ pairs[d.token[1]].approved = d.account
      /\ pairs[d.token[1]].inst = d.inst
  BY DEF PairInv, PairTypeOK, TokensKnown, CredentialApproved
<1>2. d.account \in Account /\ d.account # NoAccount
  BY <1>1, PairingAssumption DEF Device, PairingAssumption
<1>3. d.token[1] \in Code /\ pairs'[d.token[1]].inst = d.inst
  BY <1>1, TokenStays
<1> QED BY <1>1, <1>2, <1>3 DEF Grow

\* A poll that has its token knows it.
LEMMA PledgeKnown ==
  ASSUME PairInv, NEW h \in Call, Saving(h) \/ Saved(h)
  PROVE  /\ call[h].kind = "poll" /\ call[h].code \in Code /\ call[h].token = <<call[h].code, 1>>
         /\ TokenKnown(call[h].token) /\ Known(call[h].code)
         /\ call[h].account \in Account /\ pairs[call[h].code].approved = call[h].account
         /\ call[h].inst \in Inst /\ pairs[call[h].code].inst = call[h].inst
<1>1. call[h].kind = "poll" /\ Approved(call[h]) /\ CallKnows(call[h]) /\ PairTypeOK
  BY DEF Saving, Saved, Approved, PairInv, HandlersKnow
<1>2. /\ call[h].code \in Code /\ Known(call[h].code) /\ call[h].token = <<call[h].code, 1>>
      /\ minted[call[h].code] = 1
      /\ call[h].account \in Account /\ pairs[call[h].code].approved = call[h].account
      /\ pairs[call[h].code].inst = call[h].inst
  BY <1>1 DEF CallKnows
<1>3. call[h].inst \in Inst
  BY <1>1, <1>2, PairRows
<1>4. call[h].token \in Token
  BY <1>1, <1>2, PairingAssumption DEF PairTypeOK, Token, PairingAssumption
<1> QED BY <1>1, <1>2, <1>3, <1>4 DEF TokenKnown

\* The stored and the killed credentials are what they were.
Still == devices' = devices /\ killed' = killed

LEMMA StillTables ==
  ASSUME PairInv, Grow, Still
  PROVE  /\ \A d \in devices : TokenKnown(d.token)
         /\ \A t \in killed : TokenKnown(t)
         /\ CredentialApproved /\ RevokeIsFinal
         /\ \A d \in devices' : TokenKnown(d.token)'
         /\ \A t \in killed' : TokenKnown(t)'
         /\ CredentialApproved' /\ RevokeIsFinal'
<1>1. /\ \A d \in devices : TokenKnown(d.token)
      /\ \A t \in killed : TokenKnown(t)
      /\ CredentialApproved /\ RevokeIsFinal
  BY DEF PairInv, TokensKnown
<1>2. \A d \in devices : TokenKnown(d.token)'
  BY <1>1, TokenStays
<1>3. \A t \in killed : TokenKnown(t)'
  BY <1>1, TokenStays
<1>4. CredentialApproved'
  BY DeviceStays DEF CredentialApproved, Still
<1>5. RevokeIsFinal'
  BY <1>1 DEF RevokeIsFinal, Accepted, Stored, Still
<1> QED BY <1>1, <1>2, <1>3, <1>4, <1>5 DEF Still

LEMMA LivesStill ==
  ASSUME PairInv, Grow, Still, NEW t, TokenKnown(t), Lives(t)
  PROVE  Lives(t)'
<1>1. pairs'[t[1]].inst = pairs[t[1]].inst /\ backend' = backend
  BY TokenStays DEF Grow
<1> QED BY <1>1 DEF Lives, Accepted, Stored, Still

\* A companion keeps its credential or drops it.
LEMMA StillHeld ==
  ASSUME PairInv, Grow, Still, NEW i \in Inst, cred'[i] \in {cred[i], NoToken}
  PROVE  Held(i)'
<1>1. CASE cred'[i] = NoToken
  BY <1>1 DEF Held
<1>2. CASE cred'[i] = cred[i] /\ cred[i] # NoToken
  <2>1. TokenKnown(cred[i]) /\ pairs[cred[i][1]].inst = i /\ Lives(cred[i])
    BY <1>2 DEF PairInv, TokensKnown, Held
  <2>2. PICK t : t = cred[i]
    OBVIOUS
  <2>3. TokenKnown(t)' /\ pairs'[t[1]].inst = i /\ Lives(t)'
    BY <2>1, <2>2, TokenStays, LivesStill
  <2> QED BY <1>2, <2>2, <2>3 DEF Held
<1> QED BY <1>1, <1>2

\* Handler g pledges nothing it has not pledged before.
Calm(g) ==
  /\ call'[g].kind = "poll" /\ call'[g].pc = "save" =>
       Saving(g) /\ call'[g].token = call[g].token
  /\ call'[g].kind = "poll" /\ (call'[g].pc = "consume" \/ call'[g].result = "approved") =>
       Saved(g) /\ call'[g].token = call[g].token

LEMMA StillPledged ==
  ASSUME PairInv, Grow, Still, NEW g \in Call, Calm(g),
         \A i \in Inst : Saving(g) => cred'[i] \in {cred[i], NoToken} \/ cred'[i] # call[g].token
  PROVE  Pledged(g)'
<1>1. ASSUME Saving(g)' PROVE New(call[g].token)'
  <2>1. Saving(g) /\ call'[g].token = call[g].token
    BY <1>1 DEF Saving, Calm
  <2>2. New(call[g].token) /\ TokenKnown(call[g].token)
    BY <2>1, PledgeKnown DEF PairInv, TokensKnown, Pledged
  <2>3. call[g].token # NoToken
    BY <2>2 DEF TokenKnown, NoToken
  <2>4. /\ Stored(call[g].token) = {} /\ call[g].token \notin killed
        /\ \A i \in Inst : cred'[i] # call[g].token
    BY <2>1, <2>2, <2>3 DEF New
  <2>5. {d \in devices' : d.token = call'[g].token} = {} /\ call'[g].token \notin killed'
        /\ \A i \in Inst : cred'[i] # call'[g].token
    BY <2>1, <2>4 DEF Stored, Still
  <2> QED BY <2>5 DEF New, Stored
<1>2. ASSUME Saved(g)' PROVE Lives(call[g].token)'
  <2>1. Saved(g) /\ call'[g].token = call[g].token
    BY <1>2 DEF Saved, Calm
  <2>2. Lives(call[g].token) /\ TokenKnown(call[g].token)
    BY <2>1, PledgeKnown DEF PairInv, TokensKnown, Pledged
  <2>3. PICK t : t = call[g].token
    OBVIOUS
  <2>4. Lives(t)'
    BY <2>2, <2>3, LivesStill
  <2> QED BY <2>1, <2>3, <2>4
<1> QED BY <1>1, <1>2 DEF Pledged

\* An action that leaves the credentials alone, and pledges nothing new.
LEMMA CalmTokens ==
  ASSUME PairInv, Grow, Still, \A i \in Inst : cred'[i] \in {cred[i], NoToken},
         \A g \in Call : Calm(g)
  PROVE  TokensKnown'
BY StillTables, StillHeld, StillPledged DEF TokensKnown, Still

LEMMA CalmSame ==
  ASSUME NEW g \in Call, call'[g] = call[g]
  PROVE  Calm(g)
BY DEF Calm, Saving, Saved

LEMMA CalmRow ==
  ASSUME PairInv, Grow, Still, NEW h \in Call, Same(h), Calm(h),
         \A i \in Inst : cred'[i] \in {cred[i], NoToken}
  PROVE  TokensKnown'
BY CalmSame, CalmTokens DEF Same

\* Nothing is pledged by a request that is no poll, or a poll not yet approved.
LEMMA CalmRequest ==
  ASSUME NEW h \in Call,
         \/ call'[h].kind # "poll"
         \/ call'[h].pc \notin {"save", "consume"} /\ call'[h].result # "approved"
  PROVE  Calm(h)
BY DEF Calm

LEMMA AnswerTokens ==
  ASSUME PairInv, Grow, NEW h \in Call,
         Limited(h) \/ ServeStart(h) \/ ServeApprove(h) \/ ServeApproveUpdate(h)
         \/ ServeRevoke(h) \/ Forget(h)
  PROVE  TokensKnown'
<1>1. Still /\ cred' = cred
  BY DEF Limited, ServeStart, ServeApprove, ServeApproveUpdate, ServeRevoke, Forget, Still
<1>2. call[h] \in CallRow
  BY DEF PairInv, PairTypeOK
<1>3. CASE Limited(h)
  <2>1. Same(h) /\ call'[h] = [call[h] EXCEPT !.pc = "answer", !.result = "rejected"]
    BY <1>3, LimitedIs
  <2>2. call'[h].pc = "answer" /\ call'[h].result = "rejected"
    BY <1>2, <2>1 DEF CallRow
  <2> QED BY <1>1, <2>1, <2>2, CalmRequest, CalmRow
<1>4. CASE ServeStart(h)
  <2>1. PICK c \in Code :
          /\ Same(h)
          /\ call'[h] = [[call[h] EXCEPT !.pc = "answer", !.result = "started"] EXCEPT !.code = c]
    BY <1>4, ServeStartIs
  <2>2. call'[h].pc = "answer" /\ call'[h].result = "started"
    BY <1>2, <2>1 DEF CallRow
  <2> QED BY <1>1, <2>1, <2>2, CalmRequest, CalmRow
<1>5. CASE ServeApprove(h) \/ ServeApproveUpdate(h)
  <2>1. Same(h) /\ call'[h].kind # "poll"
    BY <1>5, ServeApproveKnows
  <2> QED BY <1>1, <2>1, CalmRequest, CalmRow
<1>6. CASE ServeRevoke(h)
  <2>1. Same(h) /\ call'[h].kind # "poll"
    BY <1>6, ServeRevokeKnows
  <2> QED BY <1>1, <2>1, CalmRequest, CalmRow
<1>7. CASE Forget(h)
  <2>1. Same(h) /\ call'[h].kind # "poll"
    BY <1>7, ForgetIs DEF IdleCall
  <2> QED BY <1>1, <2>1, CalmRequest, CalmRow
<1> QED BY <1>3, <1>4, <1>5, <1>6, <1>7

\* A new token is one that nothing has seen.
LEMMA ServePollTokens ==
  ASSUME PairInv, Grow, NEW h \in Call, ServePoll(h)
  PROVE  TokensKnown'
<1> DEFINE c == call[h].code
<1>1. Still /\ cred' = cred
  BY DEF ServePoll, Still
<1>2. CASE minted' = minted
  <2>1. /\ Same(h) /\ call'[h].pc = "answer" /\ call'[h].result \in {"gone", "pending"}
    BY <1>2, ServePollAnswers
  <2> QED BY <1>1, <2>1, CalmRequest, CalmRow
<1>3. CASE minted' # minted
  <2>1. /\ minted[c] = 0 /\ Same(h) /\ call'[h].kind = "poll" /\ call'[h].pc = "save"
        /\ call'[h].result = "none" /\ call'[h].token = <<c, 1>>
    BY <1>3, ServePollMints
  <2>2. \A t : TokenKnown(t) => t # <<c, 1>>
    BY <2>1 DEF TokenKnown
  <2>3. /\ \A d \in devices : d.token # <<c, 1>>
        /\ <<c, 1>> \notin killed
    BY <2>2 DEF PairInv, TokensKnown
  <2>4. ASSUME NEW i \in Inst PROVE cred[i] # <<c, 1>>
    <3>1. cred[i] = NoToken \/ TokenKnown(cred[i])
      BY DEF PairInv, TokensKnown, Held
    <3>2. NoToken # <<c, 1>>
      BY DEF NoToken
    <3> QED BY <2>2, <3>1, <3>2
  <2>5. Pledged(h)'
    <3>1. New(call[h].token)'
      BY <1>1, <2>1, <2>3, <2>4 DEF New, Stored, Still
    <3> QED BY <2>1, <3>1 DEF Pledged, Saving, Saved
  <2>6. \A g \in Call : g # h => Pledged(g)'
    BY <1>1, <2>1, CalmSame, StillPledged DEF Same
  <2>7. \A i \in Inst : Held(i)'
    BY <1>1, StillHeld
  <2> QED BY <1>1, <2>5, <2>6, <2>7, StillTables DEF TokensKnown, Still
<1> QED BY <1>2, <1>3

LEMMA ServePollConsumeTokens ==
  ASSUME PairInv, Grow, NEW h \in Call, ServePollConsume(h)
  PROVE  TokensKnown'
<1>1. Still /\ cred' = cred /\ Saved(h)
  BY DEF ServePollConsume, Still, Saved
<1>2. Same(h) /\ call'[h].token = call[h].token /\ ~Saving(h)'
  BY SavingKnows
<1>3. Calm(h)
  BY <1>1, <1>2 DEF Calm, Saving
<1> QED BY <1>1, <1>2, <1>3, CalmRow

\* A request is sent: nothing is pledged by it.
LEMMA RequestTokens ==
  ASSUME PairInv, Grow, NEW h \in Call, Same(h), call'[h].pc = "begin", call'[h].result = "none",
         Still, cred' = cred
  PROVE  TokensKnown'
BY CalmRequest, CalmRow

LEMMA SendTokens ==
  ASSUME PairInv, Grow, NEW i \in Inst, NEW h \in Call,
         StartPair(i, h) \/ SendPoll(i, h) \/ SendRevoke(i, h)
  PROVE  TokensKnown'
<1>1. Still /\ cred' = cred
  BY DEF StartPair, SendPoll, SendRevoke, Still
<1>2. CASE StartPair(i, h)
  <2>1. Same(h) /\ call'[h] = [IdleCall EXCEPT !.kind = "start", !.pc = "begin", !.inst = i]
    BY <1>2, StartPairIs
  <2>2. call'[h].pc = "begin" /\ call'[h].result = "none"
    BY <2>1 DEF IdleCall
  <2> QED BY <1>1, <2>1, <2>2, RequestTokens
<1>3. CASE SendPoll(i, h)
  <2>1. Same(h) /\ call'[h] = [IdleCall EXCEPT !.kind = "poll", !.pc = "begin", !.code = comp[i].code]
    BY <1>3, SendPollIs
  <2>2. call'[h].pc = "begin" /\ call'[h].result = "none"
    BY <2>1 DEF IdleCall
  <2> QED BY <1>1, <2>1, <2>2, RequestTokens
<1>4. CASE SendRevoke(i, h)
  <2>1. Same(h) /\ call'[h] = [IdleCall EXCEPT !.kind = "revoke", !.pc = "begin", !.inst = i,
                                               !.token = cred[i]]
    BY <1>4, SendRevokeIs
  <2>2. call'[h].pc = "begin" /\ call'[h].result = "none"
    BY <2>1 DEF IdleCall
  <2> QED BY <1>1, <2>1, <2>2, RequestTokens
<1> QED BY <1>2, <1>3, <1>4

LEMMA BrowserTokens ==
  ASSUME PairInv, Grow, NEW a \in Account, NEW c \in Code, NEW h \in Call, SendApprove(a, c, h)
  PROVE  TokensKnown'
<1>1. Same(h) /\ call'[h] = [IdleCall EXCEPT !.kind = "approve", !.pc = "begin", !.code = c,
                                             !.account = a]
  BY SendApproveIs
<1>2. call'[h].pc = "begin" /\ call'[h].result = "none"
  BY <1>1 DEF IdleCall
<1>3. Still /\ cred' = cred
  BY DEF SendApprove, Still
<1> QED BY <1>1, <1>2, <1>3, RequestTokens

\* Nothing happens to the handlers: time passes, a companion stops waiting.
LEMMA IdleTokens ==
  ASSUME PairInv, Grow, call' = call, Still, \A i \in Inst : cred'[i] \in {cred[i], NoToken}
  PROVE  TokensKnown'
BY CalmSame, CalmTokens

LEMMA RestTokens ==
  ASSUME PairInv, Grow, NEW i \in Inst, GiveUp(i) \/ LoseAnswer(i)
  PROVE  TokensKnown'
<1>1. Still /\ call' = call
  BY DEF GiveUp, LoseAnswer, Still
<1>2. \A j \in Inst : cred'[j] \in {cred[j], NoToken}
  BY DEF GiveUp, LoseAnswer, PairInv, PairTypeOK
<1> QED BY <1>1, <1>2, IdleTokens

LEMMA DieTokens ==
  ASSUME PairInv, Grow, NEW h \in Call, Die(h)
  PROVE  TokensKnown'
<1>1. Still /\ Same(h) /\ call'[h].kind # "poll"
  BY DieIs DEF Die, Still, IdleCall
<1>2. \A j \in Inst : cred'[j] \in {cred[j], NoToken}
  BY DEF Die
<1> QED BY <1>1, <1>2, CalmRequest, CalmRow

\* The companion writes the token of its own code to its file.
LEMMA ReceiveTokens ==
  ASSUME PairInv, Grow, NEW i \in Inst, Receive(i)
  PROVE  TokensKnown'
<1> DEFINE h == comp[i].call
           k == call[comp[i].call]
<1>0. /\ h \in Call /\ h # NoCall /\ k.pc = "answer" /\ Same(h) /\ call'[h] = IdleCall
      /\ cred' = [cred EXCEPT ![i] = IF k.result = "approved" THEN k.token
                                     ELSE IF k.kind = "revoke" THEN NoToken ELSE cred[i]]
  BY ReceiveIs
<1>1. /\ h \in Call /\ h # NoCall /\ k.pc = "answer" /\ Same(h) /\ call'[h].kind # "poll"
      /\ cred' = [cred EXCEPT ![i] = IF k.result = "approved" THEN k.token
                                     ELSE IF k.kind = "revoke" THEN NoToken ELSE cred[i]]
  <2>1. IdleCall.kind # "poll"
    BY DEF IdleCall
  <2> QED BY <1>0, <2>1
<1>2. Still
  BY DEF Receive, Still
<1>3. cred \in [Inst -> Token \cup {NoToken}] /\ CallKnows(k) /\ CompKnows(i)
  BY <1>1 DEF PairInv, PairTypeOK, HandlersKnow, CompanionsKnow
<1>4. CASE k.result # "approved"
  <2>1. \A j \in Inst : cred'[j] \in {cred[j], NoToken}
    BY <1>1, <1>3, <1>4
  <2> QED BY <1>1, <1>2, <2>1, CalmRequest, CalmRow
<1>5. CASE k.result = "approved"
  <2>1. k.kind = "poll" /\ Saved(h)
    <3>1. k.kind \in {"none", "start", "poll", "approve", "revoke"}
      BY <1>1 DEF PairInv, PairTypeOK, CallRow
    <3>2. IdleCall.result = "none"
      BY DEF IdleCall
    <3>3. k.kind = "poll"
      BY <1>3, <1>5, <3>1, <3>2 DEF CallKnows
    <3> QED BY <1>5, <3>3 DEF Saved
  <2>2. /\ k.code \in Code /\ k.token = <<k.code, 1>> /\ TokenKnown(k.token)
    BY <1>1, <2>1, PledgeKnown
  <2>3. pairs[k.code].inst = i
    <3>1. comp[i].pc = "polling" /\ k.code = comp[i].code
      BY <1>1, <1>3, <2>1, Waiting DEF CompKnows
    <3> QED BY <1>3, <3>1 DEF CompKnows
  <2>4. \A j \in Inst : j # i => cred'[j] = cred[j]
    BY <1>1, <1>3
  <2>5. cred'[i] = k.token
    BY <1>1, <1>3, <1>5
  <2>6. Held(i)'
    <3>1. PICK t : t = k.token
      OBVIOUS
    <3>2. Lives(t)
      BY <1>1, <2>1, <3>1 DEF PairInv, TokensKnown, Pledged
    <3>3. TokenKnown(t)' /\ Lives(t)' /\ pairs'[t[1]].inst = i
      BY <1>2, <2>2, <2>3, <3>1, <3>2, TokenStays, LivesStill
    <3> QED BY <2>5, <3>1, <3>3 DEF Held
  <2>7. \A j \in Inst : j # i => Held(j)'
    BY <1>2, <2>4, StillHeld
  <2>8. ASSUME NEW g \in Call PROVE Pledged(g)'
    <3>1. CASE g = h
      BY <1>1, <3>1 DEF Pledged, Saving, Saved
    <3>2. CASE g # h
      <4>1. Calm(g)
        BY <1>1, <3>2, CalmSame DEF Same
      <4>2. ASSUME Saving(g) PROVE call[g].token # k.token
        <5>1. call[g].kind = "poll" /\ call[g].token = <<call[g].code, 1>>
          BY <4>2, PledgeKnown
        <5>2. call[g].code # k.code
          BY <1>1, <2>1, <2>2, <3>2, <5>1 DEF PairInv, OncePerCode, OnePoll, Polls
        <5> QED BY <2>2, <5>1, <5>2
      <4> QED BY <1>2, <2>4, <2>5, <4>1, <4>2, StillPledged
    <3> QED BY <3>1, <3>2
  <2> QED BY <1>2, <2>6, <2>7, <2>8, StillTables DEF TokensKnown, Still
<1> QED BY <1>4, <1>5

-----------------------------------------------------------------------------
(* The two steps that change the stored credentials. *)

\* Credential d is stored; in Postgres it replaces those of its installation.
Stores(d) ==
  /\ d \in devices' /\ devices' \subseteq devices \cup {d}
  /\ \A e \in devices : e \in devices' \/ (backend = "pg" /\ e.inst = d.inst)
  /\ killed' = killed /\ cred' = cred

LEMMA ServePollSaveStores ==
  ASSUME NEW h \in Call, ServePollSave(h)
  PROVE  Stores([inst |-> call[h].inst, token |-> call[h].token,
                 account |-> call[h].account, revoked |-> FALSE])
<1> DEFINE d == [inst |-> call[h].inst, token |-> call[h].token,
                 account |-> call[h].account, revoked |-> FALSE]
<1>1. SaveDevice(d) /\ killed' = killed /\ cred' = cred
  BY DEF ServePollSave
<1> HIDE DEF d
<1>2. Stores(d)
  BY <1>1 DEF SaveDevice, Upsert, RowOf, Stores
<1> QED BY <1>2 DEF d

\* Storing a credential supersedes others, and kills none.
LEMMA LivesStores ==
  ASSUME PairInv, Grow, NEW d, Stores(d), d.token[1] \in Code,
         NEW t, TokenKnown(t), Lives(t), t[1] # d.token[1]
  PROVE  Lives(t)'
<1>1. pairs'[t[1]].inst = pairs[t[1]].inst /\ backend' = backend
  BY TokenStays DEF Grow
<1>2. CASE Accepted(t)
  <2>1. PICK e \in devices : e.token = t /\ ~e.revoked
    BY <1>2 DEF Accepted, Stored
  <2>2. CASE e \in devices'
    BY <2>1, <2>2 DEF Lives, Accepted, Stored
  <2>3. CASE backend = "pg" /\ e.inst = d.inst
    <3>1. pairs[t[1]].inst = e.inst
      BY <2>1, DeviceStays
    <3> QED BY <1>1, <2>3, <3>1 DEF Lives, Stores
  <2> QED BY <2>2, <2>3 DEF Stores
<1>3. CASE t \in killed
  BY <1>3 DEF Lives, Stores
<1>4. CASE backend = "pg" /\ \E e \in devices : e.inst = pairs[t[1]].inst /\ e.token[1] # t[1]
  <2>1. PICK e \in devices : e.inst = pairs[t[1]].inst /\ e.token[1] # t[1]
    BY <1>4
  <2>2. \E f \in devices' : f.inst = pairs'[t[1]].inst /\ f.token[1] # t[1]
    BY <1>1, <2>1 DEF Stores
  <2> QED BY <1>1, <1>4, <2>2 DEF Lives
<1> QED BY <1>2, <1>3, <1>4 DEF Lives

LEMMA ServePollSaveTokens ==
  ASSUME PairInv, Grow, NEW h \in Call, ServePollSave(h)
  PROVE  TokensKnown'
<1> DEFINE c == call[h].code
           t == call[h].token
           d == [inst |-> call[h].inst, token |-> t, account |-> call[h].account, revoked |-> FALSE]
<1>1. Stores(d) /\ d.token = t /\ d.inst = call[h].inst /\ d.account = call[h].account /\ ~d.revoked
  BY ServePollSaveStores
<1> HIDE DEF d
<1>2. Saving(h) /\ New(t)
  BY DEF ServePollSave, Saving, PairInv, TokensKnown, Pledged
<1>3. /\ c \in Code /\ t = <<c, 1>> /\ TokenKnown(t)
      /\ call[h].account \in Account /\ pairs[c].approved = call[h].account
      /\ pairs'[c].inst = call[h].inst
  <2>1. /\ c \in Code /\ t = <<c, 1>> /\ TokenKnown(t)
        /\ call[h].account \in Account /\ pairs[c].approved = call[h].account
        /\ pairs[c].inst = call[h].inst
    BY <1>2, PledgeKnown
  <2>2. PICK u : u = t
    OBVIOUS
  <2>3. pairs'[u[1]].inst = pairs[u[1]].inst
    BY <2>1, <2>2, TokenStays
  <2> QED BY <2>1, <2>2, <2>3
<1>4. pairs'[c].approved = call[h].account
  BY <1>3, PairingAssumption DEF Grow, PairingAssumption
<1>5. t[1] = c /\ d.token[1] = c
  BY <1>1, <1>3
<1>6. Same(h) /\ call'[h].token = t /\ ~Saving(h)'
  BY SavingKnows
<1>7. \A e \in devices' : TokenKnown(e.token)' /\ pairs'[e.token[1]].approved = e.account
                          /\ pairs'[e.token[1]].inst = e.inst
  <2> SUFFICES ASSUME NEW e \in devices'
               PROVE  TokenKnown(e.token)' /\ pairs'[e.token[1]].approved = e.account
                      /\ pairs'[e.token[1]].inst = e.inst
    OBVIOUS
  <2>1. CASE e \in devices
    BY <2>1, DeviceStays, TokenStays
  <2>2. CASE e = d
    <3>1. TokenKnown(e.token)
      BY <1>1, <1>3, <2>2
    <3>2. TokenKnown(e.token)'
      BY <3>1, TokenStays
    <3> QED BY <1>1, <1>3, <1>4, <1>5, <2>2, <3>2
  <2> QED BY <1>1, <2>1, <2>2 DEF Stores
<1>8. \A u \in killed' : TokenKnown(u)'
  BY <1>1, TokenStays DEF Stores, PairInv, TokensKnown
<1>9. RevokeIsFinal'
  <2>1. ASSUME NEW u \in killed, NEW e \in devices', e.token = u PROVE e.revoked
    BY <1>1, <1>2, <2>1 DEF New, Stores, PairInv, TokensKnown, RevokeIsFinal, Accepted, Stored
  <2> QED BY <1>1, <2>1 DEF Stores, RevokeIsFinal, Accepted, Stored
<1>10. ASSUME NEW u, TokenKnown(u), Lives(u), u # t PROVE Lives(u)'
  <2>1. u[1] # c
    BY <1>3, <1>10, TokenStays
  <2> QED BY <1>1, <1>3, <1>5, <1>10, <2>1, LivesStores
<1>11. ASSUME NEW i \in Inst PROVE Held(i)'
  <2>1. CASE cred[i] = NoToken
    BY <1>1, <2>1 DEF Stores, Held
  <2>2. CASE cred[i] # NoToken
    <3>1. PICK u : u = cred[i]
      OBVIOUS
    <3>2. TokenKnown(u) /\ pairs[u[1]].inst = i /\ Lives(u) /\ u # t
      BY <1>2, <2>2, <3>1 DEF New, PairInv, TokensKnown, Held
    <3>3. TokenKnown(u)' /\ pairs'[u[1]].inst = i /\ Lives(u)'
      BY <1>10, <3>2, TokenStays
    <3> QED BY <1>1, <3>1, <3>3 DEF Stores, Held
  <2> QED BY <2>1, <2>2
<1>12. Pledged(h)'
  <2>1. \E e \in devices' : e.token = call'[h].token /\ ~e.revoked
    BY <1>1, <1>6 DEF Stores
  <2> QED BY <1>6, <2>1 DEF Pledged, Lives, Accepted, Stored
<1>13. ASSUME NEW g \in Call, g # h PROVE Pledged(g)'
  <2>1. call'[g] = call[g]
    BY <1>6, <1>13 DEF Same
  <2>2. ASSUME Saving(g) \/ Saved(g) PROVE TokenKnown(call[g].token) /\ call[g].token # t
    <3>1. /\ call[g].kind = "poll" /\ call[g].token = <<call[g].code, 1>>
          /\ TokenKnown(call[g].token)
      BY <2>2, PledgeKnown
    <3>2. call[g].code # c
      BY <1>2, <1>3, <1>13, <3>1 DEF PairInv, OncePerCode, OnePoll, Polls, Saving
    <3> QED BY <1>3, <3>1, <3>2
  <2>3. ASSUME Saving(g) PROVE New(call[g].token)'
    <3>1. New(call[g].token) /\ call[g].token # t
      BY <2>2, <2>3 DEF PairInv, TokensKnown, Pledged
    <3>2. PICK u : u = call[g].token
      OBVIOUS
    <3>3. \A e \in devices' : e.token # u
      BY <1>1, <3>1, <3>2 DEF New, Stored, Stores
    <3>4. u \notin killed' /\ \A i \in Inst : cred'[i] # u
      BY <1>1, <3>1, <3>2 DEF New, Stores
    <3> QED BY <2>1, <3>2, <3>3, <3>4 DEF New, Stored
  <2>4. ASSUME Saved(g) PROVE Lives(call[g].token)'
    <3>1. PICK u : u = call[g].token
      OBVIOUS
    <3>2. TokenKnown(u) /\ Lives(u) /\ u # t
      BY <2>2, <2>4, <3>1 DEF PairInv, TokensKnown, Pledged
    <3>3. Lives(u)'
      BY <1>10, <3>2
    <3> QED BY <2>1, <3>1, <3>3
  <2> QED BY <2>1, <2>3, <2>4 DEF Pledged, Saving, Saved
<1> QED BY <1>7, <1>8, <1>9, <1>11, <1>12, <1>13 DEF TokensKnown, CredentialApproved

\* The rows with token t are marked revoked, and t is killed if there are any.
Revokes(t) ==
  /\ \A e \in devices' : \E d \in devices :
       /\ e.token = d.token /\ e.inst = d.inst /\ e.account = d.account
       /\ ~e.revoked => ~d.revoked /\ d.token # t
  /\ \A d \in devices : \E e \in devices' :
       /\ e.token = d.token /\ e.inst = d.inst
       /\ d.token # t => e = d
  /\ killed \subseteq killed'
  /\ \A u \in killed' : u \in killed \/ (u = t /\ \E d \in devices : d.token = t)
  /\ \A d \in devices : d.token = t => t \in killed'
  /\ cred' = cred

LEMMA ServeRevokeUpdateRevokes ==
  ASSUME PairInv, NEW h \in Call, ServeRevokeUpdate(h)
  PROVE  Revokes(call[h].token)
<1> DEFINE t == call[h].token
           marked(d) == IF d.token = t THEN [d EXCEPT !.revoked = TRUE] ELSE d
<1>1. /\ devices' = {marked(d) : d \in devices}
      /\ killed' = IF Stored(t) # {} THEN killed \cup {t} ELSE killed
      /\ cred' = cred
  BY DEF ServeRevokeUpdate, RevokeDevice
<1>2. ASSUME NEW d \in devices
      PROVE  /\ marked(d).token = d.token /\ marked(d).inst = d.inst /\ marked(d).account = d.account
             /\ ~marked(d).revoked => ~d.revoked /\ d.token # t
             /\ d.token # t => marked(d) = d
  BY DEF PairInv, PairTypeOK, Device
<1> HIDE DEF marked
<1>3. \A d \in devices : d.token = t => Stored(t) # {}
  BY DEF Stored
<1>4. Stored(t) # {} => \E d \in devices : d.token = t
  BY DEF Stored
<1> QED BY <1>1, <1>2, <1>3, <1>4 DEF Revokes

LEMMA LivesRevokes ==
  ASSUME PairInv, Grow, NEW t, Revokes(t), NEW u, TokenKnown(u), Lives(u)
  PROVE  Lives(u)'
<1>1. pairs'[u[1]].inst = pairs[u[1]].inst /\ backend' = backend
  BY TokenStays DEF Grow
<1>2. CASE Accepted(u)
  BY <1>2 DEF Lives, Accepted, Stored, Revokes
<1>3. CASE u \in killed
  BY <1>3 DEF Lives, Revokes
<1>4. CASE backend = "pg" /\ \E e \in devices : e.inst = pairs[u[1]].inst /\ e.token[1] # u[1]
  <2>1. \E f \in devices' : f.inst = pairs'[u[1]].inst /\ f.token[1] # u[1]
    BY <1>1, <1>4 DEF Revokes
  <2> QED BY <1>1, <1>4, <2>1 DEF Lives
<1> QED BY <1>2, <1>3, <1>4 DEF Lives

LEMMA ServeRevokeUpdateTokens ==
  ASSUME PairInv, Grow, NEW h \in Call, ServeRevokeUpdate(h)
  PROVE  TokensKnown'
<1>1. PICK t : Revokes(t)
  BY ServeRevokeUpdateRevokes
<1>2. Same(h) /\ call'[h].kind = "revoke"
  BY ServeRevokeKnows
<1>3. \A e \in devices' : TokenKnown(e.token)' /\ pairs'[e.token[1]].approved = e.account
                          /\ pairs'[e.token[1]].inst = e.inst
  BY <1>1, DeviceStays, TokenStays DEF Revokes
<1>4. \A u \in killed' : TokenKnown(u)'
  BY <1>1, DeviceStays, TokenStays DEF Revokes, PairInv, TokensKnown
<1>5. RevokeIsFinal'
  <2>1. ASSUME NEW u \in killed', NEW e \in devices', e.token = u PROVE e.revoked
    BY <1>1, <2>1 DEF Revokes, PairInv, TokensKnown, RevokeIsFinal, Accepted, Stored
  <2> QED BY <2>1 DEF RevokeIsFinal, Accepted, Stored
<1>6. ASSUME NEW i \in Inst PROVE Held(i)'
  <2>1. CASE cred[i] = NoToken
    BY <1>1, <2>1 DEF Revokes, Held
  <2>2. CASE cred[i] # NoToken
    <3>1. PICK u : u = cred[i]
      OBVIOUS
    <3>2. TokenKnown(u) /\ pairs[u[1]].inst = i /\ Lives(u)
      BY <2>2, <3>1 DEF PairInv, TokensKnown, Held
    <3>3. TokenKnown(u)' /\ pairs'[u[1]].inst = i /\ Lives(u)'
      BY <1>1, <3>2, TokenStays, LivesRevokes
    <3> QED BY <1>1, <3>1, <3>3 DEF Revokes, Held
  <2> QED BY <2>1, <2>2
<1>7. Pledged(h)'
  BY <1>2 DEF Pledged, Saving, Saved
<1>8. ASSUME NEW g \in Call, g # h PROVE Pledged(g)'
  <2>1. call'[g] = call[g]
    BY <1>2, <1>8 DEF Same
  <2>2. PICK u : u = call[g].token
    OBVIOUS
  <2>3. ASSUME Saving(g) PROVE New(call[g].token)'
    <3>1. New(u)
      BY <2>2, <2>3 DEF PairInv, TokensKnown, Pledged
    <3>2. \A e \in devices' : e.token # u
      BY <1>1, <3>1 DEF New, Stored, Revokes
    <3>3. u \notin killed' /\ \A i \in Inst : cred'[i] # u
      BY <1>1, <3>1 DEF New, Stored, Revokes
    <3> QED BY <2>1, <2>2, <3>2, <3>3 DEF New, Stored
  <2>4. ASSUME Saved(g) PROVE Lives(call[g].token)'
    <3>1. TokenKnown(u) /\ Lives(u)
      BY <2>2, <2>4, PledgeKnown DEF PairInv, TokensKnown, Pledged
    <3>2. Lives(u)'
      BY <1>1, <3>1, LivesRevokes
    <3> QED BY <2>1, <2>2, <3>2
  <2> QED BY <2>1, <2>3, <2>4 DEF Pledged, Saving, Saved
<1> QED BY <1>3, <1>4, <1>5, <1>6, <1>7, <1>8 DEF TokensKnown, CredentialApproved

-----------------------------------------------------------------------------
(* The invariant, and the theorems. *)

LEMMA InitInv == PairInit => PairInv
<1> SUFFICES ASSUME PairInit PROVE PairInv
  OBVIOUS
<1>1. PairTypeOK
  <2>1. IdleCall \in CallRow /\ IdleComp \in CompRow
    BY CallTypes, CompTypes
  <2> HIDE DEF IdleCall, IdleComp
  <2>2. 0 \in 0..MaxIssue /\ 0 \in 0..MaxFail
    BY PairingAssumption DEF PairingAssumption
  <2> QED BY <2>1, <2>2 DEF PairInit, PairTypeOK
<1>2. HandlersKnow
  BY DEF PairInit, HandlersKnow, CallKnows, IdleCall
<1>3. CompanionsKnow
  BY DEF PairInit, CompanionsKnow, CompKnows, IdleComp
<1>4. OncePerCode
  BY DEF PairInit, OncePerCode, OnePoll, Spent, Polls, Starts, Waits, IdleCall, IdleComp
<1>5. TokensKnown
  BY DEF PairInit, TokensKnown, Pledged, Held, Saving, Saved, CredentialApproved, RevokeIsFinal, IdleCall
<1> QED BY <1>1, <1>2, <1>3, <1>4, <1>5 DEF PairInv

LEMMA GrowInv ==
  ASSUME Grow, HandlersKnow', Steady, TokensKnown'
  PROVE  PairInv'
BY DEF Grow, Steady, PairInv

LEMMA ServerInv ==
  ASSUME PairInv, NEW h \in Call, Server(h) \/ Forget(h) \/ Die(h)
  PROVE  PairInv'
<1>1. Grow
  BY HandlerGrows, DieGrows
<1>2. CASE Limited(h)
  BY <1>1, <1>2, LimitedKnows, LimitedSteady, AnswerTokens, GrowInv
<1>3. CASE ServeStart(h)
  BY <1>1, <1>3, ServeStartKnows, ServeStartSteady, AnswerTokens, GrowInv
<1>4. CASE ServePoll(h)
  BY <1>1, <1>4, ServePollKnows, ServePollSteady, ServePollTokens, GrowInv
<1>5. CASE ServePollSave(h)
  BY <1>1, <1>5, SavingKnows, SavingSteady, ServePollSaveTokens, GrowInv
<1>6. CASE ServePollConsume(h)
  BY <1>1, <1>6, SavingKnows, SavingSteady, ServePollConsumeTokens, GrowInv
<1>7. CASE ServeApprove(h) \/ ServeApproveUpdate(h)
  BY <1>1, <1>7, ServeApproveKnows, ServeApproveSteady, AnswerTokens, GrowInv
<1>8. CASE ServeRevoke(h)
  BY <1>1, <1>8, ServeRevokeKnows, ServeRevokeSteady, AnswerTokens, GrowInv
<1>9. CASE ServeRevokeUpdate(h)
  BY <1>1, <1>9, ServeRevokeKnows, ServeRevokeSteady, ServeRevokeUpdateTokens, GrowInv
<1>10. CASE Forget(h)
  BY <1>1, <1>10, ForgetIs, EndKnows, ForgetSteady, AnswerTokens, GrowInv
<1>11. CASE Die(h)
  BY <1>1, <1>11, DieIs, EndKnows, DieSteady, DieTokens, GrowInv
<1> QED BY <1>2, <1>3, <1>4, <1>5, <1>6, <1>7, <1>8, <1>9, <1>10, <1>11 DEF Server

LEMMA AskInv ==
  ASSUME PairInv, NEW i \in Inst, NEW h \in Call,
         StartPair(i, h) \/ SendPoll(i, h) \/ SendRevoke(i, h)
  PROVE  PairInv'
<1>1. Grow /\ TokensKnown'
  BY ClientGrows, SendTokens
<1>2. HandlersKnow'
  <2>1. Same(h)
    BY StartPairIs, SendPollIs, SendRevokeIs
  <2>2. CASE StartPair(i, h)
    <3>1. call'[h] = StartOf(i)
      BY <2>2, StartPairIs DEF StartOf
    <3>2. Request(h)
      BY <3>1 DEF Request
    <3> QED BY <1>1, <2>1, <3>2, RequestKnows
  <2>3. CASE SendPoll(i, h)
    <3>1. /\ comp[i].code \in Code /\ pairs[comp[i].code].inst = i
          /\ call'[h] = PollOf(comp[i].code)
      BY <2>3, SendPollIs DEF PollOf
    <3>2. Known(comp[i].code)
      BY <3>1, PairRows DEF PairInv
    <3>3. Request(h)
      BY <3>1, <3>2 DEF Request
    <3> QED BY <1>1, <2>1, <3>3, RequestKnows
  <2>4. CASE SendRevoke(i, h)
    <3>1. call'[h] = RevokeOf(i, cred[i]) /\ cred[i] \in Token
      BY <2>4, SendRevokeIs DEF RevokeOf
    <3>2. Request(h)
      BY <3>1 DEF Request
    <3> QED BY <1>1, <2>1, <3>2, RequestKnows
  <2> QED BY <2>2, <2>3, <2>4
<1>3. Steady
  BY <1>1, AskSteady, SendPollSteady
<1> QED BY <1>1, <1>2, <1>3, GrowInv

LEMMA CompanionInv ==
  ASSUME PairInv, NEW i \in Inst, Receive(i) \/ GiveUp(i) \/ LoseAnswer(i)
  PROVE  PairInv'
<1>1. CASE Receive(i)
  <2>1. Grow
    BY <1>1, ReceiveGrows
  <2>2. HandlersKnow'
    BY <1>1, <2>1, ReceiveIs, EndKnows
  <2> QED BY <1>1, <2>1, <2>2, ReceiveSteady, ReceiveTokens, GrowInv
<1>2. CASE GiveUp(i) \/ LoseAnswer(i)
  <2>1. Grow /\ call' = call
    BY <1>2, GiveUpGrows, LoseAnswerGrows DEF GiveUp, LoseAnswer
  <2> QED BY <1>2, <2>1, SameKnows, RestSteady, RestTokens, GrowInv
<1> QED BY <1>1, <1>2

LEMMA BrowserInv ==
  ASSUME PairInv, NEW a \in Account, NEW c \in Code, NEW h \in Call, SendApprove(a, c, h)
  PROVE  PairInv'
<1>1. Grow
  BY BrowserGrows
<1>0. Same(h) /\ Known(c) /\ call'[h] = ApproveOf(c, a)
  BY SendApproveIs DEF ApproveOf
<1>2. Same(h) /\ Request(h)
  BY <1>0 DEF Request
<1>3. HandlersKnow'
  BY <1>1, <1>2, RequestKnows
<1> QED BY <1>1, <1>3, BrowserSteady, BrowserTokens, GrowInv

LEMMA ExpireInv ==
  ASSUME PairInv, NEW c \in Code, Expire(c)
  PROVE  PairInv'
<1>1. Grow /\ Still /\ call' = call /\ comp' = comp /\ minted' = minted /\ cred' = cred
  BY Untouched DEF Expire, Still, PairInv, PairTypeOK
<1> QED BY <1>1, SameKnows, ExpireSteady, IdleTokens, GrowInv

LEMMA StutterInv ==
  ASSUME PairInv, UNCHANGED pairVars
  PROVE  PairInv'
<1>1. Grow /\ Still /\ call' = call /\ comp' = comp /\ minted' = minted /\ cred' = cred
  BY Untouched DEF pairVars, Still, PairInv, PairTypeOK
<1> QED BY <1>1, SameKnows, ExpireSteady, IdleTokens, GrowInv

LEMMA NextInv == PairInv /\ [PairNext]_pairVars => PairInv'
BY ServerInv, AskInv, CompanionInv, BrowserInv, ExpireInv, StutterInv DEF PairNext

\* What handlers and companions know, that a code is spent once, that tokens
\* on their way to the table are new and those that came from it live: all of
\* it holds in every state (api.ts, the pairing routes; commands.ts, pair and
\* revoke).
THEOREM PairInvariant == PairSpec => []PairInv
<1>1. PairInit => PairInv
  BY InitInv
<1>2. PairInv /\ [PairNext]_pairVars => PairInv'
  BY NextInv
<1> QED BY <1>1, <1>2, PTL DEF PairSpec

\* Every table and every request keeps its type: in particular no code is
\* given more tokens than the bound of the model.
THEOREM PairingTypes == PairSpec => []PairTypeOK
<1>1. PairInv => PairTypeOK
  BY DEF PairInv
<1> QED BY <1>1, PairInvariant, PTL

\* A stored credential carries the account that approved its code and the
\* installation that asked for it, whichever store the server uses.
THEOREM CredentialIsApproved == PairSpec => []CredentialApproved
<1>1. PairInv => CredentialApproved
  BY DEF PairInv, TokensKnown
<1> QED BY <1>1, PairInvariant, PTL

\* A code yields one credential, although the server reads consumed_at and
\* writes it an await or two later.
THEOREM CodeUsedOnce == PairSpec => []SingleUse
<1>1. PairInv => SingleUse
  BY DEF PairInv, OncePerCode, Spent, SingleUse, PairTypeOK
<1> QED BY <1>1, PairInvariant, PTL

\* A credential whose revocation reached the store is never accepted again.
THEOREM RevokedForGood == PairSpec => []RevokeIsFinal
<1>1. PairInv => RevokeIsFinal
  BY DEF PairInv, TokensKnown
<1> QED BY <1>1, PairInvariant, PTL

\* What is in credential.json is accepted, revoked, or superseded in Postgres
\* by a pairing of the same installation.
THEOREM StoredCredentialIsGood == PairSpec => []StoredCredentialLives
<1>1. ASSUME PairInv PROVE StoredCredentialLives
  BY <1>1 DEF PairInv, TokensKnown, Held, Lives, StoredCredentialLives
<1> QED BY <1>1, PairInvariant, PTL

\* The account of a code is written once: only by an approval, on an open row,
\* and in Postgres before the code expires.
THEOREM ApprovalOnce == PairSpec => ApprovalIsFinal
<1> DEFINE Final(c) == Known(c) /\ pairs'[c].approved # pairs[c].approved =>
                         /\ pairs[c].approved = NoAccount
                         /\ ~pairs[c].consumed
                         /\ backend = "pg" => c \notin expired
<1>1. ASSUME PairInv, [PairNext]_pairVars, NEW c \in Code PROVE Final(c)
  <2>1. CASE pairs' = pairs
    BY <2>1
  <2>2. CASE \E h \in Call : ServeStart(h)
    <3>1. PICK n \in Code, i \in Inst : ~Known(n) /\ SavePair(n, i)
      BY <1>1, <2>2, ServeStartIs
    <3> QED BY <1>1, <3>1 DEF SavePair, PairInv, PairTypeOK
  <2>3. CASE \E h \in Call : ServePollSave(h) \/ ServePollConsume(h)
    <3>1. PICK h \in Call : ServePollSave(h) \/ ServePollConsume(h)
      BY <2>3
    <3>2. Known(c) => pairs[c] \in PairRow
      BY <1>1, PairRows DEF PairInv
    <3>3. CASE ServePollConsume(h)
      BY <1>1, <3>2, <3>3 DEF ServePollConsume, ConsumePair, PairInv, PairTypeOK, PairRow
    <3>4. CASE ServePollSave(h)
      <4>1. PICK i : pairs' = Consumed(i) \/ pairs' = pairs
        BY <3>4 DEF ServePollSave, SaveDevice
      <4> QED BY <1>1, <3>2, <4>1 DEF Consumed, PairInv, PairTypeOK, PairRow
    <3> QED BY <3>1, <3>3, <3>4
  <2>4. CASE \E h \in Call : ServeApproveUpdate(h)
    <3>1. PICK n, a : ApprovePair(n, a)
      BY <2>4 DEF ServeApproveUpdate
    <3> QED BY <1>1, <3>1 DEF ApprovePair, Approvable, Open, PairInv, PairTypeOK
  <2>5. \/ pairs' = pairs
        \/ \E h \in Call : \/ ServeStart(h) \/ ServePollSave(h) \/ ServePollConsume(h)
                           \/ ServeApproveUpdate(h)
    BY <1>1 DEF PairNext, Server, Limited, ServePoll, ServeApprove, ServeRevoke, ServeRevokeUpdate,
                Forget, Die, StartPair, SendPoll, SendRevoke, Receive, GiveUp, LoseAnswer,
                SendApprove, Expire, pairVars
  <2> QED BY <2>1, <2>2, <2>3, <2>4, <2>5
<1>2. PairInv /\ [PairNext]_pairVars => [\A c \in Code : Final(c)]_pairVars
  BY <1>1
<1> QED BY <1>2, PairInvariant, PTL DEF PairSpec, ApprovalIsFinal
=============================================================================
