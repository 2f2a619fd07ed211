------------------------------- MODULE MCSite -------------------------------
(***************************************************************************)
(* Small instance of EventBoard: in each behaviour two handlers work off   *)
(* one of seven sets of requests.                                          *)
(***************************************************************************)
EXTENDS EventBoard, TLC

CONSTANTS u1, u2, u3, s1, s2, s3, t1, base, base2, p1, p2, p3, kim, lee, max, zed, e1, e2

MCUserOf == (s1 :> u1) @@ (t1 :> u1) @@ (s2 :> u2) @@ (s3 :> u3)

\* u1 and u2 have the same display name, u3's slug is its own.
MCCandidates == (u1 :> <<base, base2, p1>>) @@ (u2 :> <<base, base2, p2>>) @@ (u3 :> <<p3>>)

Op(kind, s, n) == [kind |-> kind, session |-> s, name |-> NoName, event |-> NoEvent,
                   explicit |-> FALSE, cap |-> 0, n |-> n]
Me(s, n) == Op("me", s, n)
Claim(s) == [Op("character", s, 1) EXCEPT !.name = kim]
Organize(s, e) == [Op("create", s, 1) EXCEPT !.cap = 1, !.event = e]
Join(s, x, n) == [Op("signup", s, n) EXCEPT !.event = e1, !.explicit = x]
List(s) == [Op("list", s, 1) EXCEPT !.event = e1]
Designate(s) == [Op("staff", s, 1) EXCEPT !.event = e1]

\* First sign-ins of two users who share a display name, one with two tokens.
SignIns == [now |-> MaxTime, returning |-> {}, characters |-> {},
            todo |-> {Me(s1, 1), Me(s1, 2), Me(t1, 1), Me(s2, 1)}]

\* One token used again and again while time passes.
Session1 == [now |-> 0, returning |-> {}, characters |-> {},
             todo |-> {Me(s1, 1), Me(s1, 2), Me(s1, 3)}]

\* Three accounts want one name, one of them asks twice.
Names == [now |-> MaxTime, returning |-> {u1, u2, u3}, characters |-> {},
          todo |-> {Claim(s1), Claim(t1), Claim(s2), Claim(s3)}]

\* A one-seat event is organized while three accounts sign up, one of them
\* twice, naming a character or not.
Row(i, n, a) == [id |-> i, name |-> n, account |-> a]
Signups(x) == [now |-> MaxTime, returning |-> {u1, u2, u3},
               characters |-> {Row(1, kim, p1), Row(2, lee, p2), Row(3, max, p3), Row(4, zed, p1)},
               todo |-> {Organize(s1, e1), Join(s1, x, 1), Join(s1, ~x, 2), Join(s2, x, 1),
                         Join(s3, x, 1)}]

\* Two accounts list the events while one organizes and one signs up, and tokens
\* stop being accepted.
Listings == [now |-> MaxTime - 1, returning |-> {u1, u2},
             characters |-> {Row(1, kim, p1), Row(2, lee, p2)},
             todo |-> {Organize(s1, e1), Join(s2, FALSE, 1), List(s1), List(s2)}]

\* Two events, staff designated by an organizer and by somebody else, for an
\* account that may have no character.
Staffing == [now |-> MaxTime, returning |-> {u1, u2}, characters |-> {Row(1, kim, p1)},
             todo |-> {Organize(s1, e1), Organize(s2, e2), Designate(s1), Designate(s2),
                       Join(s2, FALSE, 1)}]

MCWorkload == {SignIns, Session1, Names, Signups(TRUE), Signups(FALSE), Listings, Staffing}
MCOperation == UNION {w.todo : w \in MCWorkload}

RequestSymmetry == Permutations(Request)
=============================================================================
