---------------------------- MODULE ToolpathProofs ----------------------------
(***************************************************************************)
(* Proofs about Toolpath for every build volume, set of roles, objects and *)
(* words, and files of any length.                                         *)
(***************************************************************************)
EXTENDS Toolpath, TLAPS

\* The deposits the reader could follow.
Seen == {d \in laid : d.known}

\* A total is positive exactly when a deposit of its kind was seen.
TotalsInv == verdict # "raised" =>
    /\ count > 0 <=> Seen # {}
    /\ outside > 0 <=> \E d \in Seen : ~d.inside
    /\ contacts > 0 <=> \E d \in Seen : d.contact
    /\ unassigned > 0 <=> \E d \in Seen : d.object = Unknown
    /\ \A r \in Role : roles[r] > 0 <=> \E d \in Seen : d.role = r
    /\ \A o \in Object :
         /\ objects[o].paths > 0 <=> \E d \in Seen : d.object = o
         /\ objects[o].contacts > 0 <=> \E d \in Seen : d.object = o /\ d.contact

ToolpathIInv == ToolpathTypeOK /\ KnownIsTrue /\ TotalsInv /\ InspectionIsExact

-----------------------------------------------------------------------------
LEMMA CoordInt == Coord \subseteq Int /\ 0 \in Coord /\ 1 \in Coord /\ Word \subseteq Coord
                  /\ Unknown \notin Coord /\ Absent \notin Coord
BY ToolpathAssumption DEF Coord

LEMMA ToolpathStart == ToolpathInit => ToolpathIInv
<1> SUFFICES ASSUME ToolpathInit PROVE ToolpathIInv
  OBVIOUS
<1> USE ToolpathAssumption, CoordInt DEF ToolpathInit
<1>1. ToolpathTypeOK
  <2>1. /\ {place, offset} \subseteq [Axis -> Coord] /\ feed \in Coord
        /\ {position, origin} \subseteq [Axis -> Coord \union {Unknown}]
        /\ e \in Coord \union {Unknown}
    BY DEF Anywhere
  <2>2. roles \in [Role -> Nat] /\ objects \in [Object -> [paths : Nat, contacts : Nat]]
    BY ToolpathAssumption
  <2>3. {count, outside, contacts, unassigned} \subseteq Nat /\ lines \in 0..MaxLines
    BY ToolpathAssumption
  <2>4. {xyzAbsolute, eAbsolute, declared} \subseteq BOOLEAN
    BY Zenon
  <2> QED
    BY <2>1, <2>2, <2>3, <2>4 DEF ToolpathTypeOK
<1>2. KnownIsTrue
  BY DEF KnownIsTrue
<1>3. TotalsInv
  BY DEF TotalsInv, Seen
<1>4. InspectionIsExact
  BY DEF InspectionIsExact
<1> QED
  BY <1>1, <1>2, <1>3, <1>4 DEF ToolpathIInv

\* Where the reader leads a position it knows, the machine goes.
LEMMA Followed ==
    ASSUME ToolpathTypeOK, KnownIsTrue, NEW w \in Words, NEW a \in Axis
    PROVE  /\ Target(w, position, origin)[a] \in {Target(w, place, offset)[a], Unknown}
           /\ Target(w, place, offset)[a] # Unknown
<1> USE ToolpathAssumption, CoordInt
<1>1. /\ place[a] \in Coord /\ offset[a] \in Coord
      /\ position[a] \in {place[a], Unknown} /\ origin[a] \in {offset[a], Unknown}
  BY DEF ToolpathTypeOK, KnownIsTrue
<1>2. w[a] \in Word \union {Absent}
  BY DEF Words
<1>3. CASE w[a] = Absent
  BY <1>1, <1>3 DEF Target
<1>4. CASE w[a] # Absent
  <2>1. w[a] \in Int /\ place[a] \in Int /\ offset[a] \in Int
    BY <1>1, <1>2, <1>4
  <2>2. CASE xyzAbsolute
    BY <1>1, <1>4, <2>1, <2>2 DEF Target
  <2>3. CASE ~xyzAbsolute
    BY <1>1, <1>4, <2>1, <2>3 DEF Target
  <2> QED
    BY <2>2, <2>3
<1> QED
  BY <1>3, <1>4

-----------------------------------------------------------------------------
(* What the machine does and the reader knows *)

LEMMA KnownStep ==
    ASSUME ToolpathTypeOK, KnownIsTrue, [ToolpathNext]_toolpathVars
    PROVE  KnownIsTrue'
<1> USE ToolpathAssumption, CoordInt
<1>1. CASE Annotation \/ Mode \/ Report \/ UNCHANGED toolpathVars
  BY <1>1 DEF Annotation, Mode, Report, toolpathVars, machine, view, KnownIsTrue
<1>2. CASE Homing
  BY <1>2 DEF Homing, KnownIsTrue, ToolpathTypeOK
<1>3. CASE Opaque
  BY <1>3 DEF Opaque, KnownIsTrue, ToolpathTypeOK
<1>4. CASE SetOrigin
  <2>1. PICK w \in Words, ew \in Word \union {Absent} :
          /\ offset' = [a \in Axis |-> IF w[a] = Absent THEN offset[a] ELSE place[a] - w[a]]
          /\ origin' = [a \in Axis |->
                 IF w[a] = Absent THEN origin[a]
                 ELSE IF position[a] = Unknown THEN Unknown ELSE position[a] - w[a]]
          /\ feed' = IF ew = Absent THEN feed ELSE ew
          /\ e' = IF ew = Absent THEN e ELSE ew
    BY <1>4 DEF SetOrigin
  <2>2. place' = place /\ position' = position
    BY <1>4 DEF SetOrigin
  <2>3. \A a \in Axis : position[a] \in {place[a], Unknown} /\ origin[a] \in {offset[a], Unknown}
    BY DEF KnownIsTrue
  <2>4. \A a \in Axis : origin'[a] \in {offset'[a], Unknown}
    BY <2>1, <2>3
  <2>5. e' \in {feed', Unknown}
    BY <2>1 DEF KnownIsTrue
  <2> QED
    BY <2>2, <2>3, <2>4, <2>5 DEF KnownIsTrue
<1>5. CASE Motion
  <2>1. PICK w \in Words, ew \in Word \union {Absent} :
          /\ place' = Target(w, place, offset)
          /\ position' = Target(w, position, origin)
          /\ feed' = IF ew = Absent THEN feed ELSE IF ERelative THEN feed + ew ELSE ew
          /\ e' = IF ew = Absent THEN e
                  ELSE IF ~ERelative THEN ew
                  ELSE IF e = Unknown THEN Unknown ELSE e + ew
    BY <1>5 DEF Motion
  <2>2. offset' = offset /\ origin' = origin
    BY <1>5 DEF Motion
  <2>3. \A a \in Axis : position'[a] \in {place'[a], Unknown}
    BY <2>1, Followed
  <2>4. e' \in {feed', Unknown}
    BY <2>1 DEF KnownIsTrue
  <2> QED
    BY <2>2, <2>3, <2>4 DEF KnownIsTrue
<1> QED
  BY <1>1, <1>2, <1>3, <1>4, <1>5 DEF ToolpathNext

\* A line that moves: the machine and the reader, and what becomes of the path.
LEMMA Moved ==
    ASSUME ToolpathTypeOK, KnownIsTrue, Motion
    PROVE  \E d \in Deposit :
               /\ \/ laid' = laid
                  \/ laid' = laid \union {d}
               /\ \/ Raise /\ UNCHANGED totals
                  \/ Goes /\ UNCHANGED totals /\ (laid' = laid \/ ~d.known)
                  \/ /\ Goes /\ Inspect(d.inside, d.contact)
                     /\ role \in Role /\ d.role = role /\ d.object = object
                     /\ d.known /\ laid' = laid \union {d}
<1> USE ToolpathAssumption, CoordInt
<1>1. PICK w \in Words, ew \in Word \union {Absent}, arc \in BOOLEAN, arcInside \in BOOLEAN :
        LET there == Target(w, place, offset)
            to    == Target(w, position, origin)
            delta == IF ERelative THEN ew ELSE ew - feed
            known == \A a \in Axis : Unknown \notin {position[a], to[a]}
            deltaKnown == ERelative \/ e # Unknown
            moved == arc \/ to # position
            inside  == IF arc THEN arcInside ELSE Inside(place, there)
            contact == IF arc THEN arcInside /\ Contact(place, there) ELSE Contact(place, there)
        IN
        /\ there \in [Axis -> Coord]
        /\ position' = to
        /\ IF Model /\ ew # Absent /\ (arc \/ there # place) /\ delta > 0
           THEN laid' = laid \union {[role |-> role, object |-> object, inside |-> inside,
                                      contact |-> contact, known |-> known]}
           ELSE UNCHANGED laid
        /\ IF ~Model \/ ~moved \/ ew = Absent THEN Goes /\ UNCHANGED totals
           ELSE IF ~deltaKnown THEN Raise /\ UNCHANGED totals
           ELSE IF delta <= 0 THEN Goes /\ UNCHANGED totals
           ELSE IF ~known \/ ~declared THEN Raise /\ UNCHANGED totals
           ELSE Goes /\ Inspect(inside, contact)
  BY DEF Motion
<1> DEFINE there == Target(w, place, offset)
           to    == Target(w, position, origin)
           delta == IF ERelative THEN ew ELSE ew - feed
           known == \A a \in Axis : Unknown \notin {position[a], to[a]}
           deltaKnown == ERelative \/ e # Unknown
           moved == arc \/ to # position
           inside  == IF arc THEN arcInside ELSE Inside(place, there)
           contact == IF arc THEN arcInside /\ Contact(place, there) ELSE Contact(place, there)
           d == [role |-> role, object |-> object, inside |-> inside,
                 contact |-> contact, known |-> known]
<1>2. /\ IF Model /\ ew # Absent /\ (arc \/ there # place) /\ delta > 0
         THEN laid' = laid \union {d} ELSE laid' = laid
      /\ IF ~Model \/ ~moved \/ ew = Absent THEN Goes /\ UNCHANGED totals
         ELSE IF ~deltaKnown THEN Raise /\ UNCHANGED totals
         ELSE IF delta <= 0 THEN Goes /\ UNCHANGED totals
         ELSE IF ~known \/ ~declared THEN Raise /\ UNCHANGED totals
         ELSE Goes /\ Inspect(inside, contact)
  BY <1>1, Zenon
<1>3. known => to = there /\ position = place
  <2> SUFFICES ASSUME known PROVE to = there /\ position = place
    OBVIOUS
  <2>1. \A a \in Axis : to[a] = there[a]
    BY Followed
  <2>2. \A a \in Axis : position[a] = place[a]
    BY DEF KnownIsTrue
  <2>3. position = place
    BY <2>2 DEF ToolpathTypeOK
  <2>4. to = there
    BY <2>1 DEF Target
  <2> QED
    BY <2>3, <2>4
<1>4. /\ inside \in BOOLEAN /\ contact \in BOOLEAN /\ known \in BOOLEAN
  BY DEF Inside, Contact
<1>5. d.inside = inside /\ d.contact = contact /\ d.known = known /\ d.role = role /\ d.object = object
  BY Zenon
<1> HIDE DEF d, known, inside, contact, there, to, delta, deltaKnown
<1>6. CASE ~Model
  <2>1. laid' = laid /\ Goes /\ UNCHANGED totals
    BY <1>2, <1>6
  <2>2. \E dd \in Deposit : TRUE
    <3>1. [role |-> "Support", object |-> Unknown, inside |-> TRUE,
           contact |-> TRUE, known |-> TRUE] \in Deposit
      BY DEF Deposit
    <3> QED
      BY <3>1
  <2> QED
    BY <2>1, <2>2
<1>7. CASE Model
  <2>1. d \in Deposit
    <3>1. object \in Object \union {Unknown}
      BY DEF ToolpathTypeOK
    <3> QED
      BY <1>4, <1>7, <3>1 DEF Deposit, Model, d
  <2>2. laid' = laid \/ laid' = laid \union {d}
    BY <1>2
  <2>3. CASE ew = Absent
    BY <1>2, <2>1, <2>3
  <2>4. CASE ew # Absent /\ ~moved
    <3>1. Goes /\ UNCHANGED totals
      BY <1>2, <2>4
    <3>2. known => there = place /\ ~arc
      BY <1>3, <2>4
    <3>3. laid' = laid \/ ~known
      BY <1>2, <3>2
    <3> QED
      BY <1>5, <2>1, <2>2, <3>1, <3>3
  <2>5. CASE ew # Absent /\ moved /\ ~deltaKnown
    BY <1>2, <1>7, <2>1, <2>2, <2>5
  <2>6. CASE ew # Absent /\ moved /\ deltaKnown /\ delta <= 0
    <3>1. delta \in Int
      <4>1. ew \in Int /\ feed \in Int
        BY <2>6 DEF ToolpathTypeOK
      <4> QED
        BY <4>1 DEF delta
    <3>2. laid' = laid
      BY <1>2, <2>6, <3>1
    <3>3. Goes /\ UNCHANGED totals
      BY <1>2, <1>7, <2>6
    <3> QED
      BY <2>1, <3>2, <3>3
  <2>7. CASE ew # Absent /\ moved /\ deltaKnown /\ ~(delta <= 0)
    <3>1. CASE ~known \/ ~declared
      BY <1>2, <1>7, <2>1, <2>2, <2>7, <3>1
    <3>2. CASE known /\ declared
      <4>1. delta > 0
        <5>1. ew \in Int /\ feed \in Int
          BY <2>7 DEF ToolpathTypeOK
        <5> QED
          BY <2>7, <5>1 DEF delta
      <4>2. arc \/ there # place
        BY <1>3, <2>7, <3>2
      <4>3. laid' = laid \union {d}
        BY <1>2, <1>7, <2>7, <4>1, <4>2
      <4>4. Goes /\ Inspect(inside, contact)
        BY <1>2, <1>7, <2>7, <3>2
      <4> QED
        BY <1>5, <1>7, <2>1, <3>2, <4>3, <4>4, Zenon DEF Model
    <3> QED
      BY <3>1, <3>2
  <2> QED
    BY <2>3, <2>4, <2>5, <2>6, <2>7
<1> QED
  BY <1>6, <1>7

-----------------------------------------------------------------------------
(* Types *)

TotalsType ==
    /\ count \in Nat /\ outside \in Nat /\ contacts \in Nat /\ unassigned \in Nat
    /\ roles \in [Role -> Nat]
    /\ objects \in [Object -> [paths : Nat, contacts : Nat]]

\* What one path adds to each total.
LEMMA Inspected ==
    ASSUME TotalsType, role \in Role, object \in Object \union {Unknown},
           NEW inside \in BOOLEAN, NEW contact \in BOOLEAN, Inspect(inside, contact)
    PROVE  /\ TotalsType'
           /\ count' > 0
           /\ outside' > 0 <=> outside > 0 \/ ~inside
           /\ contacts' > 0 <=> contacts > 0 \/ contact
           /\ unassigned' > 0 <=> unassigned > 0 \/ object = Unknown
           /\ \A r \in Role : roles'[r] > 0 <=> roles[r] > 0 \/ r = role
           /\ \A o \in Object :
                /\ objects'[o].paths > 0 <=> objects[o].paths > 0 \/ o = object
                /\ objects'[o].contacts > 0 <=> objects[o].contacts > 0 \/ (o = object /\ contact)
<1> USE ToolpathAssumption
<1> DEFINE one(b) == IF b THEN 1 ELSE 0
<1>1. one(~inside) \in {0, 1} /\ (one(~inside) = 1 <=> ~inside)
      /\ one(contact) \in {0, 1} /\ (one(contact) = 1 <=> contact)
  OBVIOUS
<1>2. /\ count' = count + 1 /\ outside' = outside + one(~inside)
      /\ contacts' = contacts + one(contact) /\ roles' = [roles EXCEPT ![role] = @ + 1]
      /\ IF object = Unknown
         THEN unassigned' = unassigned + 1 /\ UNCHANGED objects
         ELSE /\ objects' = [objects EXCEPT ![object] =
                     [paths |-> @.paths + 1, contacts |-> @.contacts + one(contact)]]
              /\ UNCHANGED unassigned
  BY Zenon DEF Inspect
<1> HIDE DEF one
<1>3. /\ count' \in Nat /\ outside' \in Nat /\ contacts' \in Nat
      /\ count' > 0
      /\ outside' > 0 <=> outside > 0 \/ ~inside
      /\ contacts' > 0 <=> contacts > 0 \/ contact
  BY <1>1, <1>2 DEF TotalsType
<1>4. /\ roles' \in [Role -> Nat]
      /\ \A r \in Role : roles'[r] > 0 <=> roles[r] > 0 \/ r = role
  BY <1>2 DEF TotalsType
<1>5. CASE object = Unknown
  <2>1. unassigned' = unassigned + 1 /\ objects' = objects /\ object \notin Object
    BY <1>2, <1>5
  <2>2. TotalsType' /\ unassigned' > 0
    BY <1>3, <1>4, <2>1 DEF TotalsType
  <2> QED
    BY <1>3, <1>4, <1>5, <2>1, <2>2
<1>6. CASE object # Unknown
  <2> DEFINE more == [paths |-> objects[object].paths + 1,
                      contacts |-> objects[object].contacts + one(contact)]
  <2>1. unassigned' = unassigned /\ objects' = [objects EXCEPT ![object] = more]
        /\ object \in Object
    BY <1>2, <1>6
  <2>2. objects[object] \in [paths : Nat, contacts : Nat]
    BY <2>1 DEF TotalsType
  <2>3. /\ more \in [paths : Nat, contacts : Nat]
        /\ more.paths > 0
        /\ more.contacts > 0 <=> objects[object].contacts > 0 \/ contact
    BY <1>1, <2>2
  <2> HIDE DEF more
  <2>4. objects' \in [Object -> [paths : Nat, contacts : Nat]]
    BY <2>1, <2>3 DEF TotalsType
  <2>5. \A o \in Object : objects'[o] = IF o = object THEN more ELSE objects[o]
    BY <2>1 DEF TotalsType
  <2>6. TotalsType'
    BY <1>3, <1>4, <2>1, <2>4 DEF TotalsType
  <2> QED
    BY <1>3, <1>4, <1>6, <2>1, <2>3, <2>5, <2>6
<1> QED
  BY <1>5, <1>6

LEMMA ToolpathTypeStep ==
    ASSUME ToolpathTypeOK, KnownIsTrue, [ToolpathNext]_toolpathVars
    PROVE  ToolpathTypeOK'
<1> USE ToolpathAssumption, CoordInt
<1>1. KnownIsTrue'
  BY KnownStep
<1>2. CASE Annotation
  BY <1>2 DEF Annotation, Raise, Goes, machine, view, modes, notes, totals, ToolpathTypeOK
<1>3. CASE Mode
  BY <1>3 DEF Mode, Reads, machine, view, notes, totals, ToolpathTypeOK
<1>4. CASE Homing
  <2>1. PICK axes \in SUBSET Axis \ {{}}, home \in Anywhere :
          /\ place' = [a \in Axis |-> IF a \in axes THEN home[a] ELSE place[a]]
          /\ offset' = [a \in Axis |-> IF a \in axes THEN 0 ELSE offset[a]]
          /\ position' = [a \in Axis |-> IF a \in axes THEN Unknown ELSE position[a]]
          /\ origin' = [a \in Axis |-> IF a \in axes THEN 0 ELSE origin[a]]
    BY <1>4 DEF Homing
  <2>2. home \in [Axis -> Coord]
    BY DEF Anywhere
  <2>3. /\ place' \in [Axis -> Coord] /\ offset' \in [Axis -> Coord]
        /\ position' \in [Axis -> Coord \union {Unknown}]
        /\ origin' \in [Axis -> Coord \union {Unknown}]
    BY <2>1, <2>2 DEF ToolpathTypeOK
  <2>4. lines' \in 0..MaxLines
    BY <1>4 DEF Homing, Reads, ToolpathTypeOK
  <2> QED
    BY <1>4, <2>3, <2>4 DEF Homing, modes, notes, totals, ToolpathTypeOK
<1>5. CASE Opaque
  <2>1. place' \in [Axis -> Coord] /\ position' \in [Axis -> Coord \union {Unknown}]
    BY <1>5 DEF Opaque, Anywhere, ToolpathTypeOK
  <2>2. lines' \in 0..MaxLines
    BY <1>5 DEF Opaque, Reads, ToolpathTypeOK
  <2>3. verdict' \in {"reading", "raised", "passed", "rejected"}
    BY <1>5 DEF Opaque, Raise, Goes, ToolpathTypeOK
  <2> QED
    BY <1>5, <2>1, <2>2, <2>3 DEF Opaque, modes, notes, totals, ToolpathTypeOK
<1>6. CASE SetOrigin
  <2>1. /\ offset' \in [Axis -> Coord]
        /\ feed' \in Coord
        /\ e' \in Coord \union {Unknown}
        /\ DOMAIN origin' = Axis /\ origin' = [a \in Axis |-> origin'[a]]
    <3>1. PICK w \in Words, ew \in Word \union {Absent} :
            /\ origin' = [a \in Axis |->
                   IF w[a] = Absent THEN origin[a]
                   ELSE IF position[a] = Unknown THEN Unknown ELSE position[a] - w[a]]
            /\ feed' = IF ew = Absent THEN feed ELSE ew
            /\ e' = IF ew = Absent THEN e ELSE ew
      BY <1>6 DEF SetOrigin
    <3>2. offset' \in [Axis -> Coord]
      BY <1>6 DEF SetOrigin
    <3> QED
      BY <3>1, <3>2 DEF ToolpathTypeOK
  <2>2. origin' \in [Axis -> Coord \union {Unknown}]
    <3>1. \A a \in Axis : origin'[a] \in Coord \union {Unknown}
      BY <1>1, <2>1 DEF KnownIsTrue
    <3> QED
      BY <2>1, <3>1
  <2>3. lines' \in 0..MaxLines
    BY <1>6 DEF SetOrigin, Reads, ToolpathTypeOK
  <2> QED
    BY <1>6, <2>1, <2>2, <2>3 DEF SetOrigin, modes, notes, totals, ToolpathTypeOK
<1>7. CASE Motion
  <2>1. /\ place' \in [Axis -> Coord] /\ feed' \in Coord
        /\ position' = [a \in Axis |-> position'[a]]
    BY <1>7 DEF Motion, Target
  <2>2. position' \in [Axis -> Coord \union {Unknown}]
    <3>1. \A a \in Axis : position'[a] \in Coord \union {Unknown}
      BY <1>1, <2>1 DEF KnownIsTrue
    <3> QED
      BY <2>1, <3>1
  <2>3. e' \in Coord \union {Unknown}
    BY <1>1, <2>1 DEF KnownIsTrue
  <2>4. lines' \in 0..MaxLines
    BY <1>7 DEF Motion, Reads, ToolpathTypeOK
  <2>5. laid' \subseteq Deposit /\ TotalsType' /\ verdict' \in {"reading", "raised", "passed", "rejected"}
    <3>1. PICK d \in Deposit :
            /\ laid' = laid \/ laid' = laid \union {d}
            /\ \/ Raise /\ UNCHANGED totals
               \/ Goes /\ UNCHANGED totals
               \/ Goes /\ Inspect(d.inside, d.contact) /\ role \in Role
      BY <1>7, Moved
    <3>2. laid' \subseteq Deposit
      BY <3>1 DEF ToolpathTypeOK
    <3>3. verdict' \in {"reading", "raised", "passed", "rejected"}
      BY <3>1 DEF Raise, Goes, ToolpathTypeOK
    <3>4. TotalsType
      BY DEF TotalsType, ToolpathTypeOK
    <3>5. TotalsType'
      <4>1. CASE UNCHANGED totals
        BY <3>4, <4>1 DEF totals, TotalsType
      <4>2. CASE Inspect(d.inside, d.contact) /\ role \in Role
        <5>1. d.inside \in BOOLEAN /\ d.contact \in BOOLEAN
          BY DEF Deposit
        <5>2. object \in Object \union {Unknown}
          BY DEF ToolpathTypeOK
        <5> QED
          BY <3>4, <4>2, <5>1, <5>2, Inspected
      <4> QED
        BY <3>1, <4>1, <4>2
    <3> QED
      BY <3>2, <3>3, <3>5
  <2> QED
    BY <1>7, <2>1, <2>2, <2>3, <2>4, <2>5 DEF Motion, modes, notes, TotalsType, ToolpathTypeOK
<1>8. CASE Report
  BY <1>8 DEF Report, machine, view, modes, notes, totals, ToolpathTypeOK
<1>9. CASE UNCHANGED toolpathVars
  BY <1>9 DEF toolpathVars, machine, view, modes, notes, totals, ToolpathTypeOK
<1> QED
  BY <1>2, <1>3, <1>4, <1>5, <1>6, <1>7, <1>8, <1>9 DEF ToolpathNext

-----------------------------------------------------------------------------
(* Totals and verdict *)

LEMMA SeenGrows == ASSUME NEW d \in Deposit, laid' = laid \/ laid' = laid \union {d}
                   PROVE  /\ laid' = laid \/ ~d.known => Seen' = Seen
                          /\ laid' = laid \union {d} /\ d.known => Seen' = Seen \union {d}
BY DEF Seen

LEMMA TotalsStep ==
    ASSUME ToolpathTypeOK, KnownIsTrue, TotalsInv, [ToolpathNext]_toolpathVars
    PROVE  TotalsInv'
<1>1. CASE UNCHANGED <<totals, laid>> /\ (verdict' = "raised" \/ verdict # "raised" \/ verdict' = verdict)
  BY <1>1 DEF totals, TotalsInv, Seen
<1>2. CASE Motion
  <2> SUFFICES ASSUME verdict' # "raised" PROVE TotalsInv'
    BY DEF TotalsInv
  <2>1. verdict = "reading"
    BY <1>2 DEF Motion, Reads
  <2>2. PICK d \in Deposit :
          /\ laid' = laid \/ laid' = laid \union {d}
          /\ \/ Raise /\ UNCHANGED totals
             \/ Goes /\ UNCHANGED totals /\ (laid' = laid \/ ~d.known)
             \/ /\ Goes /\ Inspect(d.inside, d.contact)
                /\ role \in Role /\ d.role = role /\ d.object = object
                /\ d.known /\ laid' = laid \union {d}
    BY <1>2, Moved
  <2>3. CASE UNCHANGED totals /\ (laid' = laid \/ ~d.known)
    <3>1. Seen' = Seen
      BY <2>2, <2>3, SeenGrows
    <3> QED
      BY <2>1, <2>3, <3>1 DEF TotalsInv, totals
  <2>4. CASE /\ Inspect(d.inside, d.contact)
             /\ role \in Role /\ d.role = role /\ d.object = object
             /\ d.known /\ laid' = laid \union {d}
    <3>1. Seen' = Seen \union {d}
      BY <2>2, <2>4, SeenGrows
    <3>2. TotalsType /\ d.inside \in BOOLEAN /\ d.contact \in BOOLEAN
          /\ object \in Object \union {Unknown}
      BY DEF TotalsType, ToolpathTypeOK, Deposit
    <3>3. /\ count' > 0
          /\ outside' > 0 <=> outside > 0 \/ ~d.inside
          /\ contacts' > 0 <=> contacts > 0 \/ d.contact
          /\ unassigned' > 0 <=> unassigned > 0 \/ d.object = Unknown
          /\ \A r \in Role : roles'[r] > 0 <=> roles[r] > 0 \/ r = d.role
          /\ \A o \in Object :
               /\ objects'[o].paths > 0 <=> objects[o].paths > 0 \/ o = d.object
               /\ objects'[o].contacts > 0 <=>
                      objects[o].contacts > 0 \/ (o = d.object /\ d.contact)
      BY <2>4, <3>2, Inspected
    <3>4. /\ outside > 0 <=> \E x \in Seen : ~x.inside
          /\ contacts > 0 <=> \E x \in Seen : x.contact
          /\ unassigned > 0 <=> \E x \in Seen : x.object = Unknown
          /\ \A r \in Role : roles[r] > 0 <=> \E x \in Seen : x.role = r
          /\ \A o \in Object :
               /\ objects[o].paths > 0 <=> \E x \in Seen : x.object = o
               /\ objects[o].contacts > 0 <=> \E x \in Seen : x.object = o /\ x.contact
      BY <2>1 DEF TotalsInv
    <3>5. /\ count' > 0 <=> Seen' # {}
          /\ outside' > 0 <=> \E x \in Seen' : ~x.inside
          /\ contacts' > 0 <=> \E x \in Seen' : x.contact
          /\ unassigned' > 0 <=> \E x \in Seen' : x.object = Unknown
      BY <3>1, <3>3, <3>4, ZenonT(60)
    <3>6. \A r \in Role : roles'[r] > 0 <=> \E x \in Seen' : x.role = r
      BY <3>1, <3>3, <3>4, ZenonT(60)
    <3>7. \A o \in Object : objects'[o].paths > 0 <=> \E x \in Seen' : x.object = o
      BY <3>1, <3>3, <3>4, ZenonT(60)
    <3>8. \A o \in Object : objects'[o].contacts > 0 <=> \E x \in Seen' : x.object = o /\ x.contact
      BY <3>1, <3>3, <3>4, ZenonT(60)
    <3> QED
      BY <3>5, <3>6, <3>7, <3>8 DEF TotalsInv
  <2> QED
    BY <2>2, <2>3, <2>4 DEF Raise
<1>3. CASE Annotation \/ Mode \/ Homing \/ Opaque \/ SetOrigin \/ Report
  BY <1>1, <1>3 DEF Annotation, Mode, Homing, Opaque, SetOrigin, Report, Reads
<1>4. CASE UNCHANGED toolpathVars
  BY <1>1, <1>4 DEF toolpathVars
<1> QED
  BY <1>2, <1>3, <1>4 DEF ToolpathNext

\* What a file that passes has laid, as a set.
Expected ==
    /\ \A d \in Seen : d.inside /\ d.object # Unknown
    /\ {d.object : d \in Seen} = Listed
    /\ \A o \in Listed : \E d \in Seen : d.object = o /\ d.contact
    /\ AllowSupport \/ \A d \in Seen : d.role # "Support"
    /\ AllowBrim \/ \A d \in Seen : d.role # "Brim"

LEMMA Decides ==
    ASSUME ToolpathTypeOK, TotalsInv, Report
    PROVE  verdict' \in {"passed", "rejected"} /\ (verdict' = "passed" <=> Expected)
<1> DEFINE printed == {o \in Object : objects[o].paths > 0}
           violations ==
             \/ count = 0 \/ outside > 0 \/ contacts = 0
             \/ ~AllowSupport /\ roles["Support"] > 0
             \/ ~AllowBrim /\ roles["Brim"] > 0
             \/ printed # Listed
             \/ unassigned > 0
             \/ \E o \in Object : objects[o].paths > 0 /\ objects[o].contacts = 0
<1>1. verdict = "reading" /\ verdict' = IF violations THEN "rejected" ELSE "passed"
  BY DEF Report
<1>2. /\ count > 0 <=> Seen # {}
      /\ outside > 0 <=> \E d \in Seen : ~d.inside
      /\ contacts > 0 <=> \E d \in Seen : d.contact
      /\ unassigned > 0 <=> \E d \in Seen : d.object = Unknown
      /\ \A r \in Role : roles[r] > 0 <=> \E d \in Seen : d.role = r
      /\ \A o \in Object :
           /\ objects[o].paths > 0 <=> \E d \in Seen : d.object = o
           /\ objects[o].contacts > 0 <=> \E d \in Seen : d.object = o /\ d.contact
  BY <1>1 DEF TotalsInv
<1>3. /\ count = 0 <=> ~(count > 0)
      /\ contacts = 0 <=> ~(contacts > 0)
      /\ \A o \in Object : objects[o].contacts = 0 <=> ~(objects[o].contacts > 0)
  BY DEF ToolpathTypeOK
<1>4. \A d \in Seen : d.object \in Object \union {Unknown}
  BY DEF Seen, ToolpathTypeOK, Deposit
<1>5. Listed # {} /\ Listed \subseteq Object /\ "Support" \in Role /\ "Brim" \in Role
      /\ Unknown \notin Object
  BY ToolpathAssumption
<1>6. ASSUME ~(unassigned > 0) PROVE printed = {d.object : d \in Seen}
  BY <1>2, <1>4, <1>6
<1>7. ASSUME ~violations PROVE Expected
  <2>1. ~(unassigned > 0) /\ printed = Listed
    BY <1>7
  <2>2. {d.object : d \in Seen} = Listed
    BY <1>6, <2>1
  <2>3. \A d \in Seen : d.inside /\ d.object # Unknown
    BY <1>2, <1>7
  <2>4. \A o \in Listed : \E d \in Seen : d.object = o /\ d.contact
    BY <1>2, <1>3, <1>5, <1>7, <2>1
  <2>5. /\ AllowSupport \/ \A d \in Seen : d.role # "Support"
        /\ AllowBrim \/ \A d \in Seen : d.role # "Brim"
    BY <1>2, <1>5, <1>7
  <2> QED
    BY <2>2, <2>3, <2>4, <2>5 DEF Expected
<1>8. ASSUME Expected PROVE ~violations
  <2>1. ~(unassigned > 0) /\ ~(outside > 0)
    BY <1>2, <1>8 DEF Expected
  <2>2. printed = Listed
    BY <1>6, <1>8, <2>1 DEF Expected
  <2>3. \E d \in Seen : d.contact
    BY <1>5, <1>8 DEF Expected
  <2>4. count # 0 /\ contacts # 0
    BY <1>2, <1>3, <2>3
  <2>5. /\ ~(~AllowSupport /\ roles["Support"] > 0)
        /\ ~(~AllowBrim /\ roles["Brim"] > 0)
    BY <1>2, <1>5, <1>8 DEF Expected
  <2>6. \A o \in Object : ~(objects[o].paths > 0 /\ objects[o].contacts = 0)
    BY <1>2, <1>3, <1>8, <2>2 DEF Expected
  <2> QED
    BY <2>1, <2>2, <2>4, <2>5, <2>6
<1> HIDE DEF violations
<1> QED
  BY <1>1, <1>7, <1>8

LEMMA VerdictStep ==
    ASSUME ToolpathTypeOK, KnownIsTrue, TotalsInv, InspectionIsExact, [ToolpathNext]_toolpathVars
    PROVE  InspectionIsExact'
<1>1. InspectionIsExact <=> (verdict = "passed" <=> verdict \in {"passed", "rejected"} /\ Expected)
  BY DEF InspectionIsExact, Expected, Seen
<1>2. InspectionIsExact' <=> (verdict' = "passed" <=> verdict' \in {"passed", "rejected"} /\ Expected')
  BY DEF InspectionIsExact, Expected, Seen
<1>3. CASE Report
  <2>1. Expected' <=> Expected
    BY <1>3 DEF Report, Expected, Seen
  <2> QED
    BY <1>2, <1>3, <2>1, Decides
<1>4. CASE Annotation \/ Mode \/ Homing \/ Opaque \/ SetOrigin \/ Motion
  <2>1. verdict = "reading"
    BY <1>4 DEF Annotation, Mode, Homing, Opaque, SetOrigin, Motion, Reads
  <2>2. verdict' \in {"reading", "raised"}
    <3>1. CASE Motion
      BY <2>1, <3>1, Moved DEF Raise, Goes
    <3>2. CASE ~Motion
      BY <1>4, <2>1, <3>2 DEF Annotation, Mode, Homing, Opaque, SetOrigin, Raise, Goes
    <3> QED
      BY <3>1, <3>2
  <2> QED
    BY <1>2, <2>2
<1>5. CASE UNCHANGED toolpathVars
  <2>1. verdict' = verdict /\ laid' = laid
    BY <1>5 DEF toolpathVars
  <2> QED
    BY <1>1, <1>2, <2>1 DEF Expected, Seen
<1> QED
  BY <1>3, <1>4, <1>5 DEF ToolpathNext

\* The invariant the properties below follow from.
THEOREM ToolpathInvariance == ToolpathSpec => []ToolpathIInv
<1>1. ToolpathIInv /\ [ToolpathNext]_toolpathVars => ToolpathIInv'
  BY ToolpathTypeStep, KnownStep, TotalsStep, VerdictStep DEF ToolpathIInv
<1> QED
  BY <1>1, ToolpathStart, PTL DEF ToolpathSpec

\* Reader, machine and totals stay within their types (gcode_paths.py, _State).
THEOREM ToolpathTypes == ToolpathSpec => []ToolpathTypeOK
<1>1. ToolpathIInv => ToolpathTypeOK
  BY DEF ToolpathIInv
<1> QED
  BY <1>1, ToolpathInvariance, PTL

\* Whatever modes, homings, G92 and opaque commands precede it, a coordinate
\* the reader of gcode_paths.py believes to know is the machine's.
THEOREM KnownTrue == ToolpathSpec => []KnownIsTrue
<1>1. ToolpathIInv => KnownIsTrue
  BY DEF ToolpathIInv
<1> QED
  BY <1>1, ToolpathInvariance, PTL

\* The counters of inspect_extrusions decide a file as the set of everything
\* it deposits at known places would.
THEOREM Exact == ToolpathSpec => []InspectionIsExact
<1>1. ToolpathIInv => InspectionIsExact
  BY DEF ToolpathIInv
<1> QED
  BY <1>1, ToolpathInvariance, PTL
=============================================================================
