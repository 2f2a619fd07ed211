-------------------------------- MODULE Codec --------------------------------
(***************************************************************************)
(* The formats reports and updates travel in (packages/contracts/src):     *)
(* restricted JSON (canonical.ts), and the envelope of Envelope.tla around *)
(* what is in it.                                                          *)
(*                                                                         *)
(* A text is a sequence of tokens.  "{" and the rest of the punctuation are*)
(* themselves, "Q" is the quote around a string, in which a token is a    *)
(* character or an escape.  "hi" and "lo" are the halves of a surrogate    *)
(* pair, "ctl" is a control character and "wide" one outside ASCII; a      *)
(* literal is one token.                                                   *)
(***************************************************************************)
EXTENDS Envelope

CONSTANTS
  Value,            \* the values that are written: records with one field, the kind
  MaxDepth, MaxStringBytes,   \* ParseOptions
  MaxDigits,        \* digits of a safe integer
  MaxDamage         \* bound on how often a text is tampered with

ASSUME CodecAssumption == {MaxDepth, MaxStringBytes, MaxDigits, MaxDamage} \subseteq Nat

VARIABLES
  text,             \* what is parsed
  damage            \* tampering with it so far; Rewritten once it was written again

codecVars == <<text, damage, wire>>

Is(kind, v) == kind \in DOMAIN v
-----------------------------------------------------------------------------
(* canonicalize *)

\* escapeString: quotes and backslashes get a short escape, controls \u00xx.
Spelling(c) == CASE c = "quote" -> "\\q" [] c = "back" -> "\\b" [] c = "ctl" -> "\\u0001"
                 [] OTHER -> c
StringText(s) == <<"Q">> \o [i \in DOMAIN s |-> Spelling(s[i])] \o <<"Q">>

\* hasLoneSurrogate.
LoneSurrogate(s) ==
  \E i \in DOMAIN s : \/ s[i] = "hi" /\ (i = Len(s) \/ s[i + 1] # "lo")
                      \/ s[i] = "lo" /\ (i = 1 \/ s[i - 1] # "hi")

\* The characters in the order of their code units.
Order == <<"ctl", "space", "quote", ",", "-", ".", "0", "1", ":", "[", "back", "]", "a", "b",
           "null", "true", "{", "}", "wide", "hi", "lo">>
Rank(c) == CHOOSE i \in DOMAIN Order : Order[i] = c
KeyBefore(s, t) ==
  \E n \in 0..Len(s) : /\ n <= Len(t) /\ \A i \in 1..n : s[i] = t[i]
                       /\ \/ n = Len(s) /\ n < Len(t)
                          \/ n < Len(s) /\ n < Len(t) /\ Rank(s[n + 1]) < Rank(t[n + 1])
IsAsciiKey(s) == \A i \in DOMAIN s : Rank(s[i]) < Rank("wide")

Joined(texts) ==
  IF texts = <<>> THEN <<>>
  ELSE FoldLeft(LAMBDA sofar, t : sofar \o <<",">> \o t, Head(texts), Tail(texts))

RECURSIVE Writable(_)
\* What writeValue throws at: a string with half a pair, a key outside ASCII.
Writable(v) ==
  CASE Is("str", v) -> ~LoneSurrogate(v.str)
    [] Is("arr", v) -> \A i \in DOMAIN v.arr : Writable(v.arr[i])
    [] Is("obj", v) -> \A k \in DOMAIN v.obj : IsAsciiKey(k) /\ Writable(v.obj[k])
    [] OTHER -> TRUE

RECURSIVE Written(_)
\* writeValue of a writable value.
Written(v) ==
  CASE Is("lit", v) -> <<v.lit>>
    [] Is("int", v) -> v.int
    [] Is("str", v) -> StringText(v.str)
    [] Is("arr", v) -> <<"[">> \o Joined([i \in DOMAIN v.arr |-> Written(v.arr[i])]) \o <<"]">>
    [] Is("obj", v) ->
         LET keys == SetToSortSeq(DOMAIN v.obj, KeyBefore) IN
         <<"{">> \o Joined([i \in DOMAIN keys |->
                              StringText(keys[i]) \o <<":">> \o Written(v.obj[keys[i]])])
           \o <<"}">>

-----------------------------------------------------------------------------
(* Parser.  Reading gives the value and the position after it, or Wrong. *)

Wrong == [at |-> 0]
Failed(r) == r.at = 0
Good(v, i) == [value |-> v, at |-> i]
At(i) == IF i \in DOMAIN text THEN text[i] ELSE "end"

\* What a token of a string stands for, and the bytes it counts: either half
\* of a pair counts as the three bytes it would be replaced by on its own.
Meaning(t) == CASE t = "\\q" -> "quote" [] t = "\\b" -> "back" [] t = "\\u0001" -> "ctl"
                [] t = "\\u0061" -> "a" [] OTHER -> t
Bytes(c) == CASE c = "wide" -> 2 [] c \in {"hi", "lo"} -> 3 [] c \in {"null", "true"} -> 4
              [] OTHER -> 1
StringBytes(s) == FoldLeft(LAMBDA n, c : n + Bytes(c), 0, s)

ReadString(i) ==
  LET ends == {j \in DOMAIN text : j > i /\ text[j] = "Q" /\ \A k \in i + 1..j - 1 : text[k] # "Q"}
  IN IF ends = {} THEN Wrong
     ELSE LET end == CHOOSE j \in ends : TRUE
              inner == SubSeq(text, i + 1, end - 1)
              s == [k \in DOMAIN inner |-> Meaning(inner[k])]
          IN IF "ctl" \in Range(inner) \/ LoneSurrogate(s) \/ StringBytes(s) > MaxStringBytes
             THEN Wrong ELSE Good(s, end + 1)

RECURSIVE PastSpace(_)
PastSpace(i) == IF At(i) = "space" THEN PastSpace(i + 1) ELSE i
\* Mutant of SkipWs: canonical or not, white space is skipped.
SkipWsAlways(i, strict) == PastSpace(i)
\* skipWs: 0 where canonical text has white space.
SkipWs(i, strict) == IF strict /\ At(i) = "space" THEN 0 ELSE PastSpace(i)

Literals == {"null", "true"}
Digit == {"0", "1"}
\* readNumber: no fraction, no leading zero, no more digits than a safe
\* integer has; minus zero is zero.
ReadNumber(i) ==
  LET first == IF At(i) = "-" THEN i + 1 ELSE i
      Run(j) == j >= first /\ \A k \in first..j : At(k) \in Digit
      last == IF At(first) = "0" THEN first
              ELSE CHOOSE j \in first - 1..Len(text) :
                     (j = first - 1 \/ Run(j)) /\ ~Run(j + 1)
      digits == SubSeq(text, i, last)
  IN IF last < first \/ At(last + 1) = "." \/ last - first + 1 > MaxDigits THEN Wrong
     ELSE Good(IF digits = <<"-", "0">> THEN <<"0">> ELSE digits, last + 1)

AsString(r) == IF Failed(r) THEN Wrong ELSE Good([str |-> r.value], r.at)
AsNumber(r) == IF Failed(r) THEN Wrong ELSE Good([int |-> r.value], r.at)
PastSpaceAfter(r, strict) == IF Failed(r) THEN 0 ELSE SkipWs(r.at, strict)

RECURSIVE ReadValue(_, _, _), ReadItems(_, _, _, _), AfterItem(_, _, _, _),
          ReadFields(_, _, _, _, _), AfterKey(_, _, _, _, _), AfterField(_, _, _, _, _)

ReadValue(i, depth, strict) ==
  CASE i = 0 \/ depth > MaxDepth -> Wrong
    [] At(i) \in Literals -> Good([lit |-> At(i)], i + 1)
    [] At(i) \in Digit \cup {"-"} -> AsNumber(ReadNumber(i))
    [] At(i) = "Q" -> AsString(ReadString(i))
    [] At(i) = "[" -> IF At(SkipWs(i + 1, strict)) = "]"
                      THEN Good([arr |-> <<>>], SkipWs(i + 1, strict) + 1)
                      ELSE ReadItems(i + 1, depth, strict, <<>>)
    [] At(i) = "{" -> IF At(SkipWs(i + 1, strict)) = "}"
                      THEN Good([obj |-> <<>>], SkipWs(i + 1, strict) + 1)
                      ELSE ReadFields(i + 1, depth, strict, <<>>, {})
    [] OTHER -> Wrong

\* readArray from its next item on.
ReadItems(i, depth, strict, items) ==
  AfterItem(ReadValue(SkipWs(i, strict), depth + 1, strict), depth, strict, items)

AfterItem(r, depth, strict, items) ==
  LET j == PastSpaceAfter(r, strict) IN
  CASE At(j) = "," -> ReadItems(j + 1, depth, strict, Append(items, r.value))
    [] At(j) = "]" -> Good([arr |-> Append(items, r.value)], j + 1)
    [] OTHER -> Wrong

\* readObject from its next key on: ASCII keys, none twice, and in canonical
\* text each after the one before.
ReadFields(i, depth, strict, fields, before) ==
  AfterKey(IF At(SkipWs(i, strict)) = "Q" THEN ReadString(SkipWs(i, strict)) ELSE Wrong,
           depth, strict, fields, before)

AfterKey(key, depth, strict, fields, before) ==
  LET admitted == /\ ~Failed(key)
                  /\ IsAsciiKey(key.value) /\ key.value \notin DOMAIN fields
                  /\ strict => \A k \in before : KeyBefore(k, key.value)
      colon == IF admitted THEN PastSpaceAfter(key, strict) ELSE 0
  IN IF At(colon) # ":" THEN Wrong
     ELSE AfterField(key.value, ReadValue(SkipWs(colon + 1, strict), depth + 1, strict),
                     depth, strict, fields)

AfterField(name, r, depth, strict, fields) ==
  LET j == PastSpaceAfter(r, strict)
      now == [k \in DOMAIN fields \cup {name} |-> IF k = name THEN r.value ELSE fields[k]]
  IN CASE At(j) = "," -> ReadFields(j + 1, depth, strict, now, {name})
       [] At(j) = "}" -> Good([obj |-> now], j + 1)
       [] OTHER -> Wrong

OnlyValue(r, strict) == IF PastSpaceAfter(r, strict) = Len(text) + 1 THEN r ELSE Wrong
\* parseJson, parseCanonical: nothing may follow the value.
Parsed(strict) ==
  OnlyValue(ReadValue(SkipWs(1, strict), 0, strict), strict)

-----------------------------------------------------------------------------

Rewritten == MaxDamage + 1

CodecInit ==
  /\ text \in {Written(v) : v \in {w \in Value : Writable(w)}}
  /\ damage = 0
  /\ EnvelopeInit

Token == {"space", "Q", ",", "-", "0", "1", ":", "]", "a", "b", "null", "wide", "lo", "ctl",
          "\\u0061"}

\* A text is not always the work of the writer.
Tamper ==
  /\ damage < MaxDamage
  /\ ~wire.sent
  /\ damage' = damage + 1
  /\ \E i \in DOMAIN text, t \in Token :
       text' \in {InsertAt(text, i, t), ReplaceAt(text, i, t), RemoveAt(text, i)}
  /\ UNCHANGED wire

\* recanonicalize.
Recanonicalize ==
  LET r == Parsed(FALSE) IN
  /\ damage \in 1..MaxDamage
  /\ ~Failed(r) /\ Writable(r.value)
  /\ text' = Written(r.value)
  /\ damage' = Rewritten
  /\ UNCHANGED wire

\* An envelope, while there is nothing to be said of the text.
Carry == damage = 0 /\ EnvelopeNext /\ UNCHANGED <<text, damage>>

CodecNext == Tamper \/ Recanonicalize \/ Carry

-----------------------------------------------------------------------------
(***************************************************************************)
(* Properties                                                              *)
(***************************************************************************)

OddlySpelled(t) ==
  \E i \in DOMAIN t : t[i] = "\\u0061" \/ (t[i] = "-" /\ i < Len(t) /\ t[i + 1] = "0")

\* What canonicalize writes, of a value of its own or of one it has read, is
\* accepted by parseCanonical; a text that parseCanonical accepts is what
\* canonicalize writes of its value ("parse and verify canonical form
\* byte-for-byte"), except that it may spell a character or a zero in another
\* way; and parseJson reads the same value.  What parseJson reads, recanonicalize
\* can write.
CanonicalForm ==
  LET strict == Parsed(TRUE)
      loose == Parsed(FALSE) IN
  /\ damage \in {0, Rewritten} => ~Failed(strict) /\ text = Written(strict.value)
  /\ ~Failed(loose) => Writable(loose.value)
  /\ ~Failed(strict) => /\ loose = strict
                        /\ OddlySpelled(text) \/ text = Written(strict.value)
                        /\ \A v \in Value :
                             Writable(v) /\ text = Written(v) => strict.value = v

\* Both formats give back what was put into them, and nothing else.
RoundTrip == CanonicalForm /\ EnvelopeWhole
=============================================================================
