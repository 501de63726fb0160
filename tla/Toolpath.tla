------------------------------- MODULE Toolpath -------------------------------
(***************************************************************************)
(* What the slicer's G-code is taken to mean: the modal reader             *)
(* (adapters/slicing/gcode_paths.py) and the one-pass inspection of the    *)
(* paths it yields (core/use_cases/toolpath_inspection.py), beside a       *)
(* machine that executes the same lines.                                   *)
(*                                                                         *)
(* The machine knows where its head is, the reader only what the lines     *)
(* told it.  After homing, and after a command whose effect the reader     *)
(* does not know, the head may be anywhere; such a command is assumed to   *)
(* keep the modes, the coordinate offset and the extruder's counter.       *)
(* What the reader passes over (G4, G21, commands with M or T, and outside *)
(* the model any text that is no command) does not move the head.          *)
(* Positions are whole numbers, a bead is one unit high, and the envelope  *)
(* of an arc is inside the build volume or not.                            *)
(***************************************************************************)
EXTENDS Integers, FiniteSets

CONSTANTS
    Axis, Height,    \* X, Y, Z, and which of them is Z
    Word,            \* numbers a line may carry
    Span,            \* bound: how far from zero anything gets
    Wall, Side,      \* the build volume: 0..Wall in the plane, 0..Side high
    Role,            \* print features in the file
    Object,          \* object labels in the file
    Listed,          \* expected_object_ids
    AllowSupport, AllowBrim,
    Unknown, Absent, \* None, and a word that is not on the line
    MaxLines         \* bound: commands read, comments aside

ASSUME ToolpathAssumption ==
    /\ Height \in Axis
    /\ {Span, Wall, Side, MaxLines} \subseteq Nat
    /\ Span > 0 /\ Word \subseteq -Span..Span
    /\ {"Support", "Brim"} \subseteq Role /\ "Custom" \notin Role
    /\ Listed # {} /\ Listed \subseteq Object
    /\ {AllowSupport, AllowBrim} \subseteq BOOLEAN
    /\ Unknown \notin Int \union Object \union Role
    /\ Absent \notin Int

VARIABLES
    place, offset, feed,     \* the machine: head, G92 offset, extruder counter
    position, origin, e,     \* the reader's view of the three
    xyzAbsolute, eAbsolute,
    role, object, declared,  \* FEATURE, OBJECT_ID; width, height and layer are known
    count, outside, contacts, unassigned,    \* the inspection's totals
    roles, objects,          \* paths per role; paths and contacts per object
    verdict,                 \* reading, raised, passed or rejected
    laid,                    \* what the machine really deposited for the model
    lines

machine == <<place, offset, feed>>
view == <<position, origin, e>>
modes == <<xyzAbsolute, eAbsolute>>
notes == <<role, object, declared>>
totals == <<count, outside, contacts, unassigned, roles, objects>>
toolpathVars == <<machine, view, modes, notes, totals, verdict, laid, lines>>

Coord == -Span..Span
Words == [Axis -> Word \union {Absent}]
Anywhere == {[a \in Axis |-> n] : n \in {0, 1}}    \* where nothing was said of the head
Deposit == [role : Role, object : Object \union {Unknown}, inside : BOOLEAN,
            contact : BOOLEAN, known : BOOLEAN]

ToolpathTypeOK ==
    /\ {place, offset} \subseteq [Axis -> Coord]
    /\ feed \in Coord
    /\ {position, origin} \subseteq [Axis -> Coord \union {Unknown}]
    /\ e \in Coord \union {Unknown}
    /\ {xyzAbsolute, eAbsolute, declared} \subseteq BOOLEAN
    /\ role \in Role \union {"Custom", Unknown}
    /\ object \in Object \union {Unknown}
    /\ {count, outside, contacts, unassigned} \subseteq Nat
    /\ roles \in [Role -> Nat]
    /\ objects \in [Object -> [paths : Nat, contacts : Nat]]
    /\ verdict \in {"reading", "raised", "passed", "rejected"}
    /\ laid \subseteq Deposit
    /\ lines \in 0..MaxLines

ToolpathInit ==
    /\ place \in Anywhere
    /\ offset = [a \in Axis |-> 0]
    /\ feed = 0
    /\ position = [a \in Axis |-> Unknown]
    /\ origin = [a \in Axis |-> 0]
    /\ e = Unknown
    /\ xyzAbsolute = TRUE /\ eAbsolute = TRUE
    /\ role = Unknown /\ object = Unknown /\ declared = FALSE
    /\ count = 0 /\ outside = 0 /\ contacts = 0 /\ unassigned = 0
    /\ roles = [r \in Role |-> 0]
    /\ objects = [o \in Object |-> [paths |-> 0, contacts |-> 0]]
    /\ verdict = "reading"
    /\ laid = {}
    /\ lines = 0

-----------------------------------------------------------------------------
(* Lines that only change modes *)

Reads == verdict = "reading" /\ lines < MaxLines /\ lines' = lines + 1
Model == role \in Role

Raise == verdict' = "raised"
Goes  == UNCHANGED verdict

\* Mutant: an OBJECT_ID that cannot be read is kept as it is.
AnnotationUnread ==
    /\ verdict = "reading"
    /\ role' \in Role \union {"Custom"}
    /\ object' \in Object \union {Unknown, Absent}
    /\ declared' \in {declared, TRUE}
    /\ UNCHANGED <<machine, view, modes, totals, verdict, laid, lines>>

\* The comments before a feature: FEATURE, OBJECT_ID, LINE_WIDTH, LAYER_HEIGHT,
\* CHANGE_LAYER; an unreadable label or number raises.
Annotation ==
    /\ verdict = "reading"
    /\ \/ /\ Goes
          /\ role' \in Role \union {"Custom"}
          /\ object' \in Object \union {Unknown}
          /\ declared' \in {declared, TRUE}
       \/ Raise /\ UNCHANGED notes
    /\ UNCHANGED <<machine, view, modes, totals, laid, lines>>

\* G90, G91, M82, M83
Mode ==
    /\ Reads
    /\ \/ xyzAbsolute' \in BOOLEAN /\ UNCHANGED eAbsolute
       \/ eAbsolute' \in BOOLEAN /\ UNCHANGED xyzAbsolute
    /\ UNCHANGED <<machine, view, notes, totals, verdict, laid>>

\* G28: the named axes go to the machine's home, which the file does not tell.
Homing ==
    /\ Reads
    /\ \E axes \in SUBSET Axis \ {{}}, home \in Anywhere :
         /\ place' = [a \in Axis |-> IF a \in axes THEN home[a] ELSE place[a]]
         /\ offset' = [a \in Axis |-> IF a \in axes THEN 0 ELSE offset[a]]
         /\ position' = [a \in Axis |-> IF a \in axes THEN Unknown ELSE position[a]]
         /\ origin' = [a \in Axis |-> IF a \in axes THEN 0 ELSE origin[a]]
    /\ UNCHANGED <<feed, e, modes, notes, totals, verdict, laid>>

\* A G command the reader has no meaning for: an error inside the model, and
\* otherwise the head may have gone anywhere.
Opaque ==
    /\ Reads
    /\ IF Model THEN Raise /\ UNCHANGED <<place, position>>
       ELSE /\ Goes
            /\ place' \in Anywhere
            /\ position' = [a \in Axis |-> Unknown]
    /\ UNCHANGED <<offset, feed, origin, e, modes, notes, totals, laid>>

\* Mutant: a position that is not known is taken for zero.
SetOriginFromZero ==
    /\ Reads
    /\ \E w \in Words, ew \in Word \union {Absent} :
         /\ ew # Absent \/ \E a \in Axis : w[a] # Absent
         /\ offset' = [a \in Axis |-> IF w[a] = Absent THEN offset[a] ELSE place[a] - w[a]]
         /\ origin' = [a \in Axis |->
                IF w[a] = Absent THEN origin[a]
                ELSE (IF position[a] = Unknown THEN 0 ELSE position[a]) - w[a]]
         /\ feed' = IF ew = Absent THEN feed ELSE ew
         /\ e' = IF ew = Absent THEN e ELSE ew
    /\ offset' \in [Axis -> Coord]
    /\ UNCHANGED <<place, position, modes, notes, totals, verdict, laid>>

\* G92: the position is called by another number; one that is unknown gives an
\* unknown origin.
SetOrigin ==
    /\ Reads
    /\ \E w \in Words, ew \in Word \union {Absent} :
         /\ ew # Absent \/ \E a \in Axis : w[a] # Absent
         /\ offset' = [a \in Axis |-> IF w[a] = Absent THEN offset[a] ELSE place[a] - w[a]]
         /\ origin' = [a \in Axis |->
                IF w[a] = Absent THEN origin[a]
                ELSE IF position[a] = Unknown THEN Unknown ELSE position[a] - w[a]]
         /\ feed' = IF ew = Absent THEN feed ELSE ew
         /\ e' = IF ew = Absent THEN e ELSE ew
    /\ offset' \in [Axis -> Coord]
    /\ UNCHANGED <<place, position, modes, notes, totals, verdict, laid>>

-----------------------------------------------------------------------------
(* Motion *)

Lower(x, y) == IF x < y THEN x ELSE y
Upper(x, y) == IF x < y THEN y ELSE x

\* The bead from one point to another lies in the build volume.
Inside(from, to) ==
    /\ \A a \in Axis \ {Height} : {from[a], to[a]} \subseteq 0..Wall
    /\ Lower(from[Height], to[Height]) - 1 >= 0
    /\ Upper(from[Height], to[Height]) <= Side

Contact(from, to) == Inside(from, to) /\ Lower(from[Height], to[Height]) - 1 = 0

\* Where a line with words w leads from a point, under some offset.
Target(w, from, reference) ==
    [a \in Axis |->
        IF w[a] = Absent THEN from[a]
        ELSE LET base == IF xyzAbsolute THEN reference[a] ELSE from[a]
             IN  IF base = Unknown THEN Unknown ELSE w[a] + base]

ERelative == ~xyzAbsolute \/ ~eAbsolute

\* Mutant: a path with no label only counts as a path.
InspectLabelled(inside, contact) ==
    LET one(b) == IF b THEN 1 ELSE 0 IN
    /\ count' = count + 1
    /\ outside' = outside + one(~inside)
    /\ contacts' = contacts + one(contact)
    /\ roles' = [roles EXCEPT ![role] = @ + 1]
    /\ objects' = IF object = Unknown THEN objects
                  ELSE [objects EXCEPT ![object] =
                      [paths |-> @.paths + 1, contacts |-> @.contacts + one(contact)]]
    /\ UNCHANGED unassigned

\* One path reaches inspect_extrusions.
Inspect(inside, contact) ==
    LET one(b) == IF b THEN 1 ELSE 0 IN
    /\ count' = count + 1
    /\ outside' = outside + one(~inside)
    /\ contacts' = contacts + one(contact)
    /\ roles' = [roles EXCEPT ![role] = @ + 1]
    /\ IF object = Unknown
       THEN unassigned' = unassigned + 1 /\ UNCHANGED objects
       ELSE /\ objects' = [objects EXCEPT ![object] =
                   [paths |-> @.paths + 1, contacts |-> @.contacts + one(contact)]]
            /\ UNCHANGED unassigned

\* G0, G1; G2, G3 also come back to where they started.
Motion ==
    /\ Reads
    /\ \E w \in Words, ew \in Word \union {Absent}, arc, arcInside \in BOOLEAN :
         LET there == Target(w, place, offset)
             to    == Target(w, position, origin)
             delta == IF ERelative THEN ew ELSE ew - feed
             known == \A a \in Axis : Unknown \notin {position[a], to[a]}
             deltaKnown == ERelative \/ e # Unknown
             moved == arc \/ to # position
             inside  == IF arc THEN arcInside ELSE Inside(place, there)
             contact == IF arc THEN arcInside /\ Contact(place, there) ELSE Contact(place, there)
         IN
         /\ arcInside => arc
         /\ there \in [Axis -> Coord]
         /\ place' = there
         /\ position' = to
         /\ feed' = IF ew = Absent THEN feed ELSE IF ERelative THEN feed + ew ELSE ew
         /\ feed' \in Coord
         /\ e' = IF ew = Absent THEN e
                 ELSE IF ~ERelative THEN ew
                 ELSE IF e = Unknown THEN Unknown ELSE e + ew
         /\ IF Model /\ ew # Absent /\ (arc \/ there # place) /\ delta > 0
            THEN laid' = laid \union {[role |-> role, object |-> object, inside |-> inside,
                                       contact |-> contact, known |-> known]}
            ELSE UNCHANGED laid
         /\ IF ~Model \/ ~moved \/ ew = Absent THEN Goes /\ UNCHANGED totals
            ELSE IF ~deltaKnown THEN Raise /\ UNCHANGED totals
            ELSE IF delta <= 0 THEN Goes /\ UNCHANGED totals
            ELSE IF ~known \/ ~declared THEN Raise /\ UNCHANGED totals
            ELSE Goes /\ Inspect(inside, contact)
    /\ UNCHANGED <<offset, origin, modes, notes>>

\* The file ends: the violations are collected.
Report ==
    LET violations ==
            \/ count = 0 \/ outside > 0 \/ contacts = 0
            \/ ~AllowSupport /\ roles["Support"] > 0
            \/ ~AllowBrim /\ roles["Brim"] > 0
            \/ {o \in Object : objects[o].paths > 0} # Listed
            \/ unassigned > 0
            \/ \E o \in Object : objects[o].paths > 0 /\ objects[o].contacts = 0
    IN  /\ verdict = "reading"
        /\ verdict' = IF violations THEN "rejected" ELSE "passed"
        /\ UNCHANGED <<machine, view, modes, notes, totals, laid, lines>>

ToolpathNext ==
    Annotation \/ Mode \/ Homing \/ Opaque \/ SetOrigin \/ Motion \/ Report

ToolpathSpec == ToolpathInit /\ [][ToolpathNext]_toolpathVars

-----------------------------------------------------------------------------
(* Properties *)

\* A coordinate, an origin or a counter the reader believes to know is the
\* machine's: relative and absolute modes, homing, G92 and opaque commands in
\* any order never leave it a wrong value (motion, reset_origin, command).
KnownIsTrue ==
    /\ \A a \in Axis : position[a] \in {place[a], Unknown} /\ origin[a] \in {offset[a], Unknown}
    /\ e \in {feed, Unknown}

\* The totals of the one pass decide as the set of all deposits would, those
\* that were made from or to a place the reader did not know left aside.
InspectionIsExact ==
    LET seen == {d \in laid : d.known} IN
    verdict = "passed" <=>
        /\ verdict \in {"passed", "rejected"}
        /\ \A d \in seen : d.inside /\ d.object # Unknown
        /\ {d.object : d \in seen} = Listed
        /\ \A o \in Listed : \E d \in seen : d.object = o /\ d.contact
        /\ AllowSupport \/ \A d \in seen : d.role # "Support"
        /\ AllowBrim \/ \A d \in seen : d.role # "Brim"

\* "Unknown geometry, unknown absolute positions ... fail closed" (gcode_paths.py:4):
\* a file that passes has deposited nothing from or to a place the reader did
\* not know.
UnknownFailsClosed == verdict = "passed" => \A d \in laid : d.known
=============================================================================
