------------------------------- MODULE Project -------------------------------
(***************************************************************************)
(* The Pythia Project operator (be/src/pythia/operators/project.cpp):      *)
(* parseInput, and the operator's init, mapinit and map.                   *)
(*                                                                         *)
(* A string is a sequence of one-character strings.  parseInput is         *)
(* translated step by step: find the first '$', then the extraction        *)
(* `ss >> ret` of an int from an istringstream, which skips leading        *)
(* blanks, takes an optional sign and the longest run of digits, and fails *)
(* if there are no digits or the value does not fit an int.  INT_MAX is a  *)
(* constant so that overflow is reachable with short strings.              *)
(*                                                                         *)
(* A column of the source schema is abstracted to its index and its type, *)
(* a tuple to a function from column index to value.                      *)
(***************************************************************************)
EXTENDS Integers, Sequences, SequencesExt

CONSTANTS
    Digits,       \* the digit characters strings may contain
    INT_MAX,      \* largest int (2147483647 in the build)
    Columns,      \* srcschema.columns()
    SrcSchema,    \* the type of each source column, indexed from 0
    Values,       \* values a column of an input tuple may hold
    Projections   \* "projection" lists the configuration may hold

ASSUME Digits \subseteq {"0", "1", "2", "3", "4", "5", "6", "7", "8", "9"}
ASSUME SrcSchema \in [0..Columns-1 -> Range(SrcSchema)]

INT_MIN == -(INT_MAX + 1)

DigitValue(c) ==
    CHOOSE n \in 0..9 : <<"0", "1", "2", "3", "4", "5", "6", "7", "8", "9">>[n + 1] = c

VARIABLES
    projection,   \* cfg["projection"]
    phase,        \* "configured", then "inited", "mapinited", or the exception init threw
    projlist,     \* projlist
    outSchema,    \* the output schema mapinit builds
    input,        \* the last tuple passed to map, <<>> before the first
    out           \* the tuple map wrote for it

vars == <<projection, phase, projlist, outSchema, input, out>>

Phases == {"configured", "inited", "mapinited",
           "InvalidParameter", "IllegalSchemaDeclarationException"}

TypeOK ==
    /\ projection \in Projections
    /\ phase \in Phases
    /\ projlist \in Seq(0..Columns-1)
    /\ outSchema \in Seq(Range(SrcSchema))
    /\ input = <<>> \/ input \in [0..Columns-1 -> Values]
    /\ out \in Seq(Values)

Init ==
    /\ projection \in Projections
    /\ phase = "configured"
    /\ projlist = <<>>
    /\ outSchema = <<>>
    /\ input = <<>>
    /\ out = <<>>

-----------------------------------------------------------------------------
(* The steps of `ss >> ret`. *)
RECURSIVE SkipBlanks(_)
SkipBlanks(r) == IF r # <<>> /\ Head(r) = " " THEN SkipBlanks(Tail(r)) ELSE r

RECURSIVE DigitRun(_)
DigitRun(r) == IF r # <<>> /\ Head(r) \in Digits
                 THEN <<Head(r)>> \o DigitRun(Tail(r)) ELSE <<>>

RECURSIVE Accumulate(_, _)
Accumulate(acc, ds) == IF ds = <<>> THEN acc
                       ELSE Accumulate(10 * acc + DigitValue(Head(ds)), Tail(ds))

(* `ss >> ret` on the remainder r: whether the stream is still good, and   *)
(* what ret holds (0 with no digits, INT_MAX or INT_MIN on overflow).      *)
ExtractInt(r) ==
    LET t    == SkipBlanks(r)
        sign == IF t # <<>> /\ Head(t) = "-" THEN -1 ELSE 1
        u    == IF t # <<>> /\ Head(t) \in {"+", "-"} THEN Tail(t) ELSE t
        ds   == DigitRun(u)
        v    == sign * Accumulate(0, ds)
    IN  [ok  |-> ds # <<>> /\ v \in INT_MIN..INT_MAX,
         val |-> IF ds = <<>> THEN 0
                 ELSE IF v > INT_MAX THEN INT_MAX
                 ELSE IF v < INT_MIN THEN INT_MIN ELSE v]

(* Mutant: the stream state is not checked, ret is returned as it is. *)
ParseInput_NoFailCheck(s) ==
    LET l == SelectInSeq(s, LAMBDA c : c = "$")
    IN  IF l = 0 THEN -1 ELSE ExtractInt(SubSeq(s, l + 1, Len(s))).val

(* parseInput: the int after the first '$', or -1. *)
ParseInput(s) ==
    LET l == SelectInSeq(s, LAMBDA c : c = "$")
        x == ExtractInt(SubSeq(s, l + 1, Len(s)))
    IN  IF l = 0 \/ ~x.ok THEN -1 ELSE x.val

(* static_cast<unsigned int>(projattr): the int taken modulo 2^32. *)
UnsignedCast(v) == v % (2 * (INT_MAX + 1))

(* Mutant: the parse check is off by one. *)
InvalidAttr_OffByOne(v) == v < -1

(* Mutant: the column-range check is dropped. *)
NoSuchColumn_Dropped(v) == FALSE

(* init's first check: parseInput could not read a number. *)
InvalidAttr(v) == v <= -1

(* init's second check: the attribute does not exist. *)
NoSuchColumn(v) == UnsignedCast(v) >= Columns

(* Project::init: parse the projection list in order, pushing each valid  *)
(* attribute; the first bad one throws, leaving the attributes before it   *)
(* in projlist.                                                            *)
ProjectInit ==
    /\ phase = "configured"
    /\ LET attrs == [i \in DOMAIN projection |-> ParseInput(projection[i])]
           bad   == SelectInSeq(attrs, LAMBDA v : InvalidAttr(v) \/ NoSuchColumn(v))
       IN  /\ projlist' = IF bad = 0 THEN attrs ELSE SubSeq(attrs, 1, bad - 1)
           /\ phase' = IF bad = 0 THEN "inited"
                       ELSE IF InvalidAttr(attrs[bad]) THEN "InvalidParameter"
                       ELSE "IllegalSchemaDeclarationException"
    /\ UNCHANGED <<projection, outSchema, input, out>>

(* Project::mapinit: the output schema lists the projected source columns. *)
MapInit ==
    /\ phase = "inited"
    /\ outSchema' = [i \in DOMAIN projlist |-> SrcSchema[projlist[i]]]
    /\ phase' = "mapinited"
    /\ UNCHANGED <<projection, projlist, input, out>>

(* Mutant: output column i is written from source column i. *)
ProjectedValue_SameIndex(t, i) == t[i - 1]

(* The value map writes to output column i: source column projlist[i]. *)
ProjectedValue(t, i) == t[projlist[i]]

(* Project::map: copy the projected attributes of the tuple to the output. *)
Map ==
    /\ phase = "mapinited"
    /\ \E t \in [0..Columns-1 -> Values] :
          /\ input' = t
          /\ out' = [i \in DOMAIN projlist |-> ProjectedValue(t, i)]
    /\ UNCHANGED <<projection, phase, projlist, outSchema>>

Next == ProjectInit \/ MapInit \/ Map

Spec == Init /\ [][Next]_vars

-----------------------------------------------------------------------------
(* A reference reading of the comment on parseInput, written independently *)
(* of the code: the part after the first '$' is blanks, an optional sign,  *)
(* a non-empty run of digits and anything that does not start with a      *)
(* digit; the value is that signed decimal number if it fits an int, and   *)
(* -1 in every other case.                                                 *)
ParseReference(s) ==
    LET dollars == {i \in DOMAIN s : s[i] = "$"}
        r == SubSeq(s, Min(dollars) + 1, Len(s))
        m == Len(r)
        Splits == {sp \in (0..m) \X (0..m) \X (0..m) :
                     /\ sp[1] <= sp[2] /\ sp[2] <= sp[1] + 1 /\ sp[2] < sp[3]
                     /\ \A i \in 1..sp[1] : r[i] = " "
                     /\ sp[2] = sp[1] + 1 => r[sp[2]] \in {"+", "-"}
                     /\ \A i \in sp[2]+1..sp[3] : r[i] \in Digits
                     /\ sp[3] = m \/ r[sp[3] + 1] \notin Digits}
        Number(sp) ==
            LET mag == FoldLeft(LAMBDA acc, c : 10 * acc + DigitValue(c), 0,
                                SubSeq(r, sp[2] + 1, sp[3]))
            IN  IF sp[2] = sp[1] + 1 /\ r[sp[2]] = "-" THEN -mag ELSE mag
    IN  IF dollars = {} \/ Splits = {} THEN -1
        ELSE LET v == Number(CHOOSE sp \in Splits : TRUE)
             IN  IF v \in INT_MIN..INT_MAX THEN v ELSE -1

(* parseInput agrees with the reference reading on every configured        *)
(* projection string: blanks, signs, trailing garbage, a second '$',       *)
(* missing digits and int overflow included.                               *)
ParseMatchesReference ==
    \A i \in DOMAIN projection : ParseInput(projection[i]) = ParseReference(projection[i])

(* init accepts a projection list exactly when every string names a column *)
(* of the source schema, and otherwise throws for the first string that    *)
(* does not: InvalidParameter if it is not a non-negative number,          *)
(* IllegalSchemaDeclarationException if it is past the last column.        *)
InitOutcomeMatchesConfig ==
    LET ref  == [i \in DOMAIN projection |-> ParseReference(projection[i])]
        bad  == SelectInSeq(ref, LAMBDA v : v \notin 0..Columns-1)
    IN  /\ phase \in {"inited", "mapinited"} => bad = 0 /\ projlist = ref
        /\ phase = "InvalidParameter" => bad # 0 /\ ref[bad] < 0
        /\ phase = "IllegalSchemaDeclarationException" => bad # 0 /\ ref[bad] >= Columns

(* After mapinit and map, output column i has the type and the value of    *)
(* the source column the i-th projection string names.                     *)
MapCopiesNamedColumns ==
    (phase = "mapinited" /\ input # <<>>) =>
        /\ Len(out) = Len(projection) /\ Len(outSchema) = Len(projection)
        /\ \A i \in DOMAIN projection :
              /\ out[i] = input[ParseReference(projection[i])]
              /\ outSchema[i] = SrcSchema[ParseReference(projection[i])]

=============================================================================
