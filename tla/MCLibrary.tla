------------------------------ MODULE MCLibrary ------------------------------
(***************************************************************************)
(* The parts that are computations and small state machines of their own,  *)
(* side by side: a behaviour is about one of them, its topic, and leaves   *)
(* the others as they were at the start.                                   *)
(***************************************************************************)
EXTENDS Boards, RateLimit, Frames, Codec

VARIABLE topic

LibraryInit ==
  /\ topic \in {"boards", "limits", "frames", "codec"}
  /\ BoardsInit /\ LimitInit /\ FramesInit /\ CodecInit
  /\ topic # "codec" => text = <<"null">>

LibraryNext ==
  \/ topic = "boards" /\ BoardsNext /\ UNCHANGED <<limitVars, frameVars, codecVars, topic>>
  \/ topic = "limits" /\ LimitNext /\ UNCHANGED <<shelf, frameVars, codecVars, topic>>
  \/ topic = "frames" /\ FramesNext /\ UNCHANGED <<shelf, limitVars, codecVars, topic>>
  \/ topic = "codec" /\ CodecNext /\ UNCHANGED <<shelf, limitVars, frameVars, topic>>

-----------------------------------------------------------------------------
\* Boards: 1 and 3 are the characters of one account.
MCOwner == <<"A", "B", "A", "C">>
MCClass == <<7, 8, 7, 7>>
Slope(d) == (2 * d) \div 5
MCExpected == [d \in -40..40 |-> IF d < 0 THEN 20 + Slope(-d) ELSE 20 - Slope(d)]
MCNeed == [open |-> [series |-> 2, opponents |-> 1], mirror |-> [series |-> 1, opponents |-> 1]]

Series1(n, t, a, b, games) ==
  [id |-> n, seq |-> n, seen |-> t, ladder |-> "open", a |-> a, b |-> b, bestOf |-> 1,
   games |-> games, finished |-> TRUE, filed |-> TRUE, first |-> games,
   evidence |-> "corroborated", rating |-> "pending"]

\* Four rated series of accounts A and B in a week (two at one moment), and one
\* a week later that nobody won but an onlooker's first report credits; a
\* disputed series, an unranked best of three, a series that never finished, a
\* mirror series, one that both sides say a third won, and one that was agreed
\* on before a handler that had read less wrote its state (Ingest.tla).
MCPool ==
  {Series1(1, 0, 1, 2, <<1>>), Series1(2, 0, 1, 2, <<2>>), Series1(3, 1, 2, 3, <<3>>),
   Series1(4, 2, 1, 2, <<1>>),
   [Series1(5, 7, 2, 3, <<NoOne>>) EXCEPT !.first = <<3>>],
   [Series1(6, 3, 1, 4, <<4>>) EXCEPT !.evidence = "disputed", !.rating = "held"],
   [Series1(7, 3, 2, 4, <<4, 2, 2>>) EXCEPT !.bestOf = 3, !.ladder = "none",
                                            !.rating = "ineligible"],
   [Series1(8, 4, 1, 4, <<1>>) EXCEPT !.finished = FALSE],
   [Series1(9, 4, 3, 4, <<3>>) EXCEPT !.ladder = "mirror", !.rating = "applied"],
   Series1(10, 5, 1, 2, <<4>>),
   [Series1(11, 6, 1, 4, <<4>>) EXCEPT !.evidence = "awaiting", !.rating = "ineligible"]}

\* RateLimit: two routes, one with the shorter window.
MCLimit == [k \in Key |-> IF k = "k1" THEN 2 ELSE 1]
MCWindow == [k \in Key |-> IF k = "k1" THEN 4 ELSE 2]

\* Frames: two senders who chose one id; a sender with more messages under way
\* than assemblies, who uses one id again with as many chunks, one with fewer.
Sent(from, id, total, body) == [from |-> from, id |-> id, total |-> total, body |-> body]
MCMessage == {Sent("A", 1, 2, "x"), Sent("A", 1, 2, "y"), Sent("B", 1, 2, "x"),
              Sent("A", 2, 2, "x"), Sent("A", 2, 1, "z"), Sent("A", 3, 1, "x")}

\* Codec: every kind of value, keys that share a prefix, characters that need an
\* escape, two values nobody can write; payloads of no block, one, and several.
Str(s) == [str |-> s]
MCValue ==
  {[lit |-> "null"], [int |-> <<"-", "1">>], Str(<<"hi", "lo">>), Str(<<"quote", "ctl", "a">>),
   [arr |-> <<>>], [arr |-> <<[int |-> <<"0">>], [lit |-> "true"]>>],
   [obj |-> <<"a">> :> [int |-> <<"1">>] @@ <<"b">> :> Str(<<>>)],
   [obj |-> <<"b">> :> [arr |-> <<[obj |-> <<>>]>>] @@ <<"a", "a">> :> [lit |-> "null"]],
   [arr |-> <<Str(<<"a", "lo">>)>>], [obj |-> <<"wide">> :> [lit |-> "null"]]}
MCPayload == {<<>>, <<7>>, <<0, 255>>, <<1, 2, 3>>, <<1, 255, 0, 9, 200, 65, 3>>}
=============================================================================
