----------------------------- MODULE EventBoard -----------------------------
(***************************************************************************)
(* The event board: organizing an event, signing up, designating staff.    *)
(*                                                                         *)
(* The routes /v1/events, /v1/events/:id/signup and /v1/events/:id/staff   *)
(* of packages/server/src/api.ts over PgEventBoard (pg.ts) or              *)
(* InMemoryEventBoard (api.ts).  Requests are those of Accounts.tla, which *)
(* brings them here with their account.                                    *)
(***************************************************************************)
EXTENDS Accounts

VARIABLES
    events,       \* tournaments: organizer and cap of each event, or nothing
    seats,        \* registrations that were not dropped
    staff         \* event_staff

boardVars == <<events, seats, staff>>
siteVars == <<accVars, boardVars>>

NoRow == [organizer |-> NoSlug, cap |-> 0]

BoardTypeOK ==
    /\ events \in [Event -> [organizer: Slug \cup {NoSlug}, cap: Nat]]
    /\ seats \subseteq [event: Event, account: Slug, char: Nat]
    /\ staff \subseteq [event: Event, account: Slug, role: {"organizer", "referee"}]

BoardInit ==
    /\ events = [e \in Event |-> NoRow]
    /\ seats = {}
    /\ staff = {}

SiteTypeOK == AccTypeOK /\ BoardTypeOK
SiteInit == AccInit /\ BoardInit

Exists(e) == e \in Event /\ events[e] # NoRow
SeatsOf(e) == {s \in seats : s.event = e}
\* Mutant of Full: off by one.
FullWhenOver(e) == Cardinality(SeatsOf(e)) > events[e].cap
Full(e) == Cardinality(SeatsOf(e)) >= events[e].cap
Registered(e, a) == \E s \in SeatsOf(e) : s.account = a
CharactersOf(a) == {c.id : c \in {d \in characters : d.account = a}}

OnBoard(r, pc) == req[r].pc = pc /\ UNCHANGED <<store, now, valid, signedOut, cache,
    profiles, accounts, characters, todo, failures, cut>>

-----------------------------------------------------------------------------
(* POST /v1/events *)

NewEvent(e, a, cap) == events' = [events EXCEPT ![e] = [organizer |-> a, cap |-> cap]]
AddStaffRow(e, a, role) == staff' = staff \cup {[event |-> e, account |-> a, role |-> role]}

\* create in memory: the event, its empty signups and the organizer's staff row
\* at once.  The fresh id is the one the request is named by.
CreateEventInMemory(r) ==
    /\ OnBoard(r, "profile of organizer") /\ store = "memory"
    /\ NewEvent(req[r].op.event, req[r].account, req[r].op.cap)
    /\ AddStaffRow(req[r].op.event, req[r].account, "organizer")
    /\ Respond(r, "created")
    /\ UNCHANGED seats

\* create on Postgres: the caller's profile is read first, then the event is
\* inserted, and the organizer's staff row one await later.
CreateEvent(r) ==
    /\ OnBoard(r, "profile of organizer") /\ store = "pg"
    /\ Goto(r, "insert event")
    /\ UNCHANGED <<answers, boardVars>>

\* Mutant of InsertEvent: the answer does not wait for the staff row.
InsertEventAlone(r) ==
    /\ OnBoard(r, "insert event")
    /\ NewEvent(req[r].op.event, req[r].account, req[r].op.cap)
    /\ Respond(r, "created")
    /\ UNCHANGED <<seats, staff>>

InsertEvent(r) ==
    /\ OnBoard(r, "insert event")
    /\ NewEvent(req[r].op.event, req[r].account, req[r].op.cap)
    /\ Goto(r, "insert organizer")
    /\ UNCHANGED <<answers, seats, staff>>

InsertOrganizer(r) ==
    /\ OnBoard(r, "insert organizer")
    /\ AddStaffRow(req[r].op.event, req[r].account, "organizer")
    /\ Respond(r, "created")
    /\ UNCHANGED <<events, seats>>

-----------------------------------------------------------------------------
(* POST /v1/events/:id/signup *)

TakeSeat(r, c) ==
    seats' = seats \cup {[event |-> req[r].op.event, account |-> req[r].account, char |-> c]}

\* The in-memory board also tests here whether the account is registered, and
\* finishes a request that names no character without an await.
SignupInMemory(r) ==
    LET e == req[r].op.event
        a == req[r].account
        open == Exists(e) /\ ~Registered(e, a) /\ ~Full(e) IN
    /\ OnBoard(r, "count") /\ store = "memory"
    /\ \/ ~Exists(e) /\ Respond(r, "closed") /\ UNCHANGED boardVars
       \/ Exists(e) /\ Registered(e, a) /\ Respond(r, "duplicate") /\ UNCHANGED boardVars
       \/ Exists(e) /\ ~Registered(e, a) /\ Full(e) /\ Respond(r, "full") /\ UNCHANGED boardVars
       \/ open /\ req[r].op.explicit /\ Goto(r, "pick") /\ UNCHANGED <<answers, boardVars>>
       \/ /\ open /\ ~req[r].op.explicit
          /\ \/ CharactersOf(a) = {} /\ Respond(r, "no_character") /\ UNCHANGED boardVars
             \/ \E c \in CharactersOf(a) :
                  TakeSeat(r, c) /\ Respond(r, "ok") /\ UNCHANGED <<events, staff>>

\* The named character has been looked up.  A seat is added (a set of accounts:
\* a second one changes nothing) without counting again.
PickInMemory(r) ==
    /\ OnBoard(r, "pick") /\ store = "memory"
    /\ \E c \in characters :
        \/ /\ c.account # req[r].account
           /\ Respond(r, "no_character")
           /\ UNCHANGED boardVars
        \/ /\ c.account = req[r].account
           /\ IF Registered(req[r].op.event, req[r].account) THEN UNCHANGED seats
              ELSE TakeSeat(r, c.id)
           /\ Respond(r, "ok")
           /\ UNCHANGED <<events, staff>>

\* Postgres reads the status and the count, and tests nothing else here.
CountSeats(r) ==
    LET e == req[r].op.event IN
    /\ OnBoard(r, "count") /\ store = "pg"
    /\ \/ ~Exists(e) /\ Respond(r, "closed")
       \/ Exists(e) /\ Full(e) /\ Respond(r, "full")
       \/ Exists(e) /\ ~Full(e) /\ Goto(r, "pick") /\ UNCHANGED answers
    /\ UNCHANGED boardVars

\* The character: the one the client picked must be the account's own, else
\* the account's best one is taken.
PickCharacter(r) ==
    LET mine == CharactersOf(req[r].account) IN
    /\ OnBoard(r, "pick") /\ store = "pg"
    /\ \/ /\ IF req[r].op.explicit THEN \E c \in characters : c.id \notin mine ELSE mine = {}
          /\ Respond(r, "no_character")
       \/ /\ \E c \in mine : req' = [req EXCEPT ![r].pc = "insert seat", ![r].char = c]
          /\ UNCHANGED answers
    /\ UNCHANGED boardVars

\* Mutant of InsertSeat: a registration is unique by character only.
InsertSeatPerCharacter(r) ==
    LET taken == \E s \in SeatsOf(req[r].op.event) : s.char = req[r].char IN
    /\ OnBoard(r, "insert seat")
    /\ \/ taken /\ Respond(r, "duplicate") /\ UNCHANGED seats
       \/ ~taken /\ TakeSeat(r, req[r].char) /\ Respond(r, "ok")
    /\ UNCHANGED <<events, staff>>

\* insert into registrations: unique (event_id, account_id) and
\* (event_id, character_id); a violation is answered "duplicate".
InsertSeat(r) ==
    LET taken == \E s \in SeatsOf(req[r].op.event) :
                    s.account = req[r].account \/ s.char = req[r].char IN
    /\ OnBoard(r, "insert seat")
    /\ \/ taken /\ Respond(r, "duplicate") /\ UNCHANGED seats
       \/ ~taken /\ TakeSeat(r, req[r].char) /\ Respond(r, "ok")
    /\ UNCHANGED <<events, staff>>

-----------------------------------------------------------------------------
(* POST /v1/events/:id/staff *)

\* Who an organizer may designate: any account, in any role.
Designated == {accounts[u] : u \in User} \ {NoSlug}
Role == {"organizer", "referee"}

MayDesignate(e, a) == Exists(e) /\ events[e].organizer = a

\* addStaff in memory: the tests and the row at once.
AddStaffInMemory(r) ==
    LET e == req[r].op.event IN
    /\ OnBoard(r, "event") /\ store = "memory"
    /\ \/ ~Exists(e) /\ Respond(r, "no_event") /\ UNCHANGED staff
       \/ Exists(e) /\ ~MayDesignate(e, req[r].account) /\ Respond(r, "not_organizer")
          /\ UNCHANGED staff
       \/ /\ MayDesignate(e, req[r].account)
          /\ \E a \in Designated, role \in Role :
               IF CharactersOf(a) = {} THEN Respond(r, "no_character") /\ UNCHANGED staff
               ELSE Respond(r, "ok") /\ AddStaffRow(e, a, role)
    /\ UNCHANGED <<events, seats>>

\* addStaff on Postgres reads the event, then the caller, then the account to
\* designate, and inserts the row; none of what it reads ever changes once it is
\* there, so the reads are one step.
CheckStaff(r) ==
    LET e == req[r].op.event IN
    /\ OnBoard(r, "event") /\ store = "pg"
    /\ \/ ~Exists(e) /\ Respond(r, "no_event")
       \/ Exists(e) /\ ~MayDesignate(e, req[r].account) /\ Respond(r, "not_organizer")
       \/ /\ MayDesignate(e, req[r].account)
          /\ \E a \in Designated :
               IF CharactersOf(a) = {} THEN Respond(r, "no_character")
               ELSE /\ req' = [req EXCEPT ![r].pc = "insert staff",
                                          ![r].char = CHOOSE c \in CharactersOf(a) : TRUE]
                    /\ UNCHANGED answers
    /\ UNCHANGED boardVars

InsertStaff(r) ==
    /\ OnBoard(r, "insert staff")
    /\ \E c \in characters, role \in Role :
        /\ c.id = req[r].char
        /\ AddStaffRow(req[r].op.event, c.account, role)
    /\ Respond(r, "ok")
    /\ UNCHANGED <<events, seats>>

-----------------------------------------------------------------------------
(* GET /v1/events *)

\* What a listing says of event e to account a; nothing is marked for nobody.
Marks(e, a) ==
    IF ~Exists(e) THEN {}
    ELSE {"listed"} \cup (IF Registered(e, a) THEN {"registered"} ELSE {})
                   \cup (IF events[e].organizer = a THEN {"managedByMe"} ELSE {})

\* list: one statement on Postgres, no await in memory.
ListEvents(r) ==
    /\ OnBoard(r, "list")
    /\ Tell(r, Marks(req[r].op.event, req[r].account))
    /\ UNCHANGED boardVars

BoardStep(r) ==
    \/ CreateEventInMemory(r) \/ CreateEvent(r) \/ InsertEvent(r) \/ InsertOrganizer(r)
    \/ SignupInMemory(r) \/ PickInMemory(r)
    \/ CountSeats(r) \/ PickCharacter(r) \/ InsertSeat(r)
    \/ AddStaffInMemory(r) \/ CheckStaff(r) \/ InsertStaff(r)
    \/ ListEvents(r)

SiteNext ==
    \/ \E r \in Request : AccountStep(r) /\ UNCHANGED boardVars
    \/ \E r \in Request : BoardStep(r)
    \/ Tick /\ UNCHANGED boardVars
    \/ \E s \in Session : SignOut(s) /\ UNCHANGED boardVars

SiteSpec == SiteInit /\ [][SiteNext]_siteVars

-----------------------------------------------------------------------------
(* What the board promises. *)

\* The cap is passed only by signups that overlap: an event never has more
\* seats than its cap and the requests that were in flight beside the one
\* that filled it (signup counts, awaits, and inserts without counting again).
OverbookingBounded ==
    \A e \in Event : Exists(e) =>
        Cardinality(SeatsOf(e)) <= events[e].cap + Cardinality(Request) - 1

\* What two requests may do to each other between a test and the write it was for
\* ends there: no name and no event goes further.
RacesBounded == NameRaceBounded /\ OverbookingBounded

\* "ok" and "duplicate" both tell the player that the account has its seat, as
\* does a listing that marks the event as joined; and the account has one,
\* whichever of its own signups won and whatever the listing ran beside.
AnsweredSeat ==
    /\ \A e \in Event : \A s, t \in SeatsOf(e) : s.account = t.account => s = t
    /\ \A x \in answers :
         x.outcome \in {"ok", "duplicate", "registered"} => Registered(x.op.event, x.account)

\* An event whose creation was answered has its organizer on its staff ("the
\* organizer is staff by construction", pg.ts), and every event without that row
\* is due to a handler between its two inserts, or to one whose process exited
\* there: no failed query, answer or request beside it leaves another.
Unstaffed == {e \in Event : Exists(e) /\
    [event |-> e, account |-> events[e].organizer, role |-> "organizer"] \notin staff}

OrganizerIsStaff ==
    /\ \A x \in answers : x.op.kind = "create" /\ x.outcome = "created" =>
         x.op.event \notin Unstaffed
    /\ Unstaffed \subseteq Due \cup cut

-----------------------------------------------------------------------------
(* What requests and tables know of each other at every step. *)

\* An event exists from the insert of the one request that creates it.
EventInv ==
    /\ \A op \in todo : op.kind = "create" => ~Exists(op.event)
    /\ \A r \in InFlight : req[r].op.kind = "create" =>
         IF req[r].pc = "insert organizer"
         THEN events[req[r].op.event] = [organizer |-> req[r].account, cap |-> req[r].op.cap]
         ELSE ~Exists(req[r].op.event)
    /\ \A r \in Request : req[r].pc \in {"pick", "insert seat", "insert staff"} =>
         Exists(req[r].op.event)

Owns(a, c) == \E x \in characters : x.id = c /\ x.account = a

SeatInv ==
    /\ IsFiniteSet(seats)
    /\ \A s \in seats : Exists(s.event) /\ Owns(s.account, s.char)
    /\ \A r \in Request : req[r].pc = "insert seat" => Owns(req[r].account, req[r].char)

\* A signup that has counted may insert although the event is full by then.
Entering(e) == {r \in Request : req[r].pc \in {"pick", "insert seat"} /\ req[r].op.event = e}

CapInv ==
    \A e \in Event : Exists(e) =>
        Cardinality(SeatsOf(e)) + Cardinality(Entering(e))
            <= events[e].cap + Cardinality(Request) - 1

StaffInv ==
    /\ \A x \in answers : x.op.kind = "create" /\ x.outcome = "created" => Exists(x.op.event)
    /\ OrganizerIsStaff

\* The inductive invariant.
SiteInv ==
    /\ SiteTypeOK
    /\ OneAccountPerUser
    /\ SignInInv /\ CacheInv /\ SentOnce
    /\ Numbered /\ NameInv
    /\ EventInv /\ SeatInv /\ CapInv /\ AnsweredSeat /\ StaffInv
=============================================================================
