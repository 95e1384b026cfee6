---------------------------- MODULE MCOperations ----------------------------
(* A small instance of Operations for TLC. *)
EXTENDS Operations

\* Q!NoDate.  (TLC's coverage loops on a constant whose value names an instance that
\* has the constant; OperationsConstants fails if this is no date of it.)
NoDay == -1

Phase    == ("a1" :> "3") @@ ("a2" :> "4S") @@ ("a3" :> "7")
Building == ("a1" :> "1") @@ ("a2" :> "1") @@ ("a3" :> "2")

Plain(a)    == [apartment |-> a, prefixed |-> FALSE]
Prefixed(a) == [apartment |-> a, prefixed |-> TRUE]

Line(code, phase, building) == [code |-> code, phase |-> phase, building |-> building]

\* With and without a phase, one building in two phases, a line twice, a prefix.
Files ==
  {<<Line(Plain("a1"), "3", "1"), Line(Plain("a2"), None, "1")>>,
   <<Line(Plain("a2"), "4S", "1"), Line(Plain("a1"), "3", "1")>>,
   <<Line(Plain("a1"), "3", "1"), Line(Plain("a1"), "3", "2")>>,
   <<Line(Prefixed("a1"), None, None), Line(Plain("a2"), "4S", None)>>}

Lists == {{Prefixed("a1")}, {Plain("a1"), Plain("a2")}, {Plain("a3")}}

Asks == {<<>>, <<"3">>, <<"3", "4S">>, <<"3", "3">>}

MovedIn(code, day, current) == [code |-> code, moveIn |-> day, current |-> current]

\* Former residents, two spellings of a code, a unit nobody knows.
Residents ==
  {{MovedIn(Plain("a1"), 0, TRUE), MovedIn(Plain("a1"), 30, FALSE), MovedIn(Plain("a2"), 20, TRUE)},
   {MovedIn(Plain("a1"), 30, TRUE), MovedIn(Prefixed("a1"), 0, TRUE), MovedIn(Plain("a3"), 20, TRUE)}}

Order(number, code, area, created, assigned, status) ==
  [number |-> number, code |-> code, area |-> area, created |-> created,
   assigned |-> assigned, status |-> status]

\* A unit of each manager and of neither report; a technician of each, the manager,
\* nobody; the statuses that have a table, and one that has none.  And an empty or
\* blank cell, a location that is an area, a second spelling, no date.
ServiceRequests ==
  {Order(<<a, who, status>>, Plain(a), None, 15, who, status) :
     a \in {"a1", "a2", "a3"}, who \in {"Mabi", "Alexander", "Barron", "Unassigned"},
     status \in {"In progress", "On hold", "Open"}}
  \cup
  {Order(<<"other", "row", "1">>, Prefixed("a1"), None, 23, "Dennis", "On hold"),
   Order(<<"other", "row", "2">>, Plain("a1"), None, 16, "Unassigned", "Open"),
   Order(<<"other", "row", "3">>, Plain("a2"), None, 13, "blanks", "In progress"),
   Order(<<"other", "row", "4">>, Plain("a3"), None, 27, "Barron", "On hold"),
   Order(<<"other", "row", "5">>, Plain("a3"), None, NoDate, "empty", "empty"),
   Order(<<"other", "row", "6">>, Plain("a1"), "POOL", 20, "Victor", "In progress")}

\* Structure; scope; work orders; queue: each with what it depends on.
Kinds == {{"master", "manual", "report"}, {"report", "scope"}, {"master", "report", "orders"},
          {"report", "queue"}, {"conflicts"}, {"arrivals"}}

Listing(unit, cell, available) == [unit |-> unit, cell |-> cell, available |-> available]
Arrival(unit, moveIn) == [unit |-> unit, moveIn |-> moveIn]

\* A skip of each unit, one with a date; an empty cell, a blank one, and a line
\* without a unit.
Available ==
  {<<Listing("u1", "vacant ready", NoDay), Listing("u2", "vacant ready", 1)>>,
   <<Listing("u1", "nan", NoDay), Listing(NoUnit, "vacant ready", 1), Listing("u2", " ", NoDay)>>}

\* Move-ins with a date, without one, and without a unit.
MoveIns ==
  {<<Arrival("u1", 1), Arrival("u2", NoDay)>>,
   <<Arrival("u1", 1), Arrival("u2", 1), Arrival(NoUnit, NoDay)>>}
=============================================================================
