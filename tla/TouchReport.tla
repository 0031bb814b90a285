---------------------------- MODULE TouchReport ----------------------------
(***************************************************************************)
(* TcmDispatchReport of SynapticsTCMDxe: the interpretation of a touch     *)
(* report.  ConfigData, which the controller sent when the driver was      *)
(* started, is a program of codes, most of them followed by a number of    *)
(* bits; it is run over the payload of the report, one code a step, and    *)
(* leaves a touch: whether there is one, and where.                        *)
(*                                                                         *)
(* A layout says how a controller lays out its reports: the fields before  *)
(* the objects and the fields of each object, as pairs of a code and a     *)
(* number of bits.  Its program and its reports follow from it.            *)
(***************************************************************************)
EXTENDS Naturals, Sequences, SequencesExt

CONSTANTS
  Layouts,     \* layouts of controllers that report the active objects
  TableLayouts,\* layouts of controllers that report every object
  Objects,     \* objects (fingers) a report may hold
  MaxObjects,  \* bound: active objects in a report
  MAX_FINGER   \* objects a controller can tell apart, 10

TOUCH_END == 0
TOUCH_FOREACH_ACTIVE_OBJECT == 1
TOUCH_FOREACH_OBJECT == 2
TOUCH_FOREACH_END == 3
TOUCH_PAD_TO_NEXT_BYTE == 4
TOUCH_TIMESTAMP == 5
TOUCH_OBJECT_N_INDEX == 6
TOUCH_OBJECT_N_CLASSIFICATION == 7
TOUCH_OBJECT_N_X_POSITION == 8
TOUCH_OBJECT_N_Y_POSITION == 9
TOUCH_OBJECT_N_Z == 10
TOUCH_CUSTOMER_GESTURE_INFO == 199

MESSAGE_PADDING == 90

VARIABLES
  layout, objects,   \* what the controller reports
  payload,           \* payloadData, its last byte is the padding
  index, next,       \* Index and Next, positions in ConfigData (from 0)
  bitsOffset,        \* BitsOffset
  objectIndex, activeOnly,  \* ObjectIndex, ActiveOnly
  dataByte,          \* DataByte
  touch,             \* touchData
  done               \* the function has returned

report == <<layout, objects, payload>>
vars == <<report, index, next, bitsOffset, objectIndex, activeOnly, dataByte, touch, done>>

-----------------------------------------------------------------------------
(* Controllers *)

Codes(fields) == FlattenSeq([i \in 1 .. Len(fields) |-> <<fields[i].code, fields[i].bits>>])

(* The program a controller gives for a layout. *)
ConfigData(l) ==
  Codes(l.frame)
    \o <<IF l \in TableLayouts THEN TOUCH_FOREACH_OBJECT ELSE TOUCH_FOREACH_ACTIVE_OBJECT>>
    \o Codes(l.object)
    \o <<TOUCH_FOREACH_END, TOUCH_PAD_TO_NEXT_BYTE, TOUCH_END, MESSAGE_PADDING>>

ToBits(value, n) == [i \in 1 .. n |-> (value \div 2 ^ (i - 1)) % 2]

(* The number that n bits from an offset stand for, the first the lowest. *)
Number(bits, offset, n) ==
  FoldLeftDomain(LAMBDA sum, i : sum + bits[offset + i] * 2 ^ (i - 1), 0, [i \in 1 .. n |-> i])

FieldValue(object, code) ==
  CASE code = TOUCH_OBJECT_N_INDEX -> object.index
    [] code = TOUCH_OBJECT_N_CLASSIFICATION -> object.class
    [] code = TOUCH_OBJECT_N_X_POSITION -> object.x
    [] code = TOUCH_OBJECT_N_Y_POSITION -> object.y
    [] OTHER -> 0

Fields(fields, object) ==
  FlattenSeq([i \in 1 .. Len(fields) |->
                ToBits(FieldValue(object, fields[i].code), fields[i].bits)])

NoObject == [index |-> 0, class |-> 0, x |-> 0, y |-> 0]

(* A table holds every object, the active ones in their places. *)
Listed(l, os) ==
  IF l \notin TableLayouts THEN os
  ELSE [i \in 1 .. MAX_FINGER |->
          IF \E k \in 1 .. Len(os) : os[k].index = i - 1
          THEN os[CHOOSE k \in 1 .. Len(os) : os[k].index = i - 1] ELSE NoObject]

ReportBits(l, os) ==
  LET all == Listed(l, os) IN
  Fields(l.frame, NoObject)
    \o FlattenSeq([i \in 1 .. Len(all) |-> Fields(l.object, all[i])])

(***************************************************************************)
(* SynaGetTouchData hands over the bytes that were read, with the padding  *)
(* byte; for a report without payload there are two zero bytes before it.  *)
(***************************************************************************)
Payload(l, os) ==
  LET bits == ReportBits(l, os) IN
  IF bits = <<>> THEN <<0, 0, MESSAGE_PADDING>>
  ELSE [i \in 1 .. Len(bits) \div 8 |-> Number(bits, 8 * (i - 1), 8)] \o <<MESSAGE_PADDING>>

(***************************************************************************)
(* The frame and each object fill whole bytes, and an object begins with   *)
(* an index that can tell the padding byte from an object.                 *)
(***************************************************************************)
Bits(fields) == FoldLeft(LAMBDA sum, f : sum + f.bits, 0, fields)

ASSUME ReportAssumption ==
  /\ MAX_FINGER \in Nat \ {0} /\ MaxObjects \in Nat
  /\ \A l \in Layouts \union TableLayouts :
       /\ Bits(l.frame) % 8 = 0 /\ Bits(l.object) % 8 = 0 /\ Bits(l.object) > 0
       /\ \A i \in 1 .. Len(l.frame) :
            l.frame[i].code = TOUCH_CUSTOMER_GESTURE_INFO =>
              l.frame[i].bits % 8 = 0 /\ l.frame[i].bits <= 160
  /\ \A l \in Layouts :
       /\ l.object[1].code = TOUCH_OBJECT_N_INDEX
       /\ MESSAGE_PADDING % 2 ^ l.object[1].bits >= MAX_FINGER
  /\ \A l \in TableLayouts : \A i \in 1 .. Len(l.object) :
       l.object[i].code # TOUCH_OBJECT_N_INDEX

Init ==
  /\ layout \in Layouts \union TableLayouts
  /\ objects \in UNION {[1 .. n -> Objects] : n \in 0 .. MaxObjects}
  /\ payload = Payload(layout, objects)
  /\ index = 0 /\ next = 0 /\ bitsOffset = 0
  /\ objectIndex = 0 /\ activeOnly = FALSE /\ dataByte = 0
  /\ touch = [status |-> 0, x |-> 0, y |-> 0]
  /\ done = FALSE

-----------------------------------------------------------------------------
(* TcmParseSingleByte *)

(* Mutant of ParseSingleByte: every byte is read from the same bit on. *)
MutParseSingleByte(offset, n) ==
  LET Lower(a, b) == IF a < b THEN a ELSE b
      from == offset % 8
      rest[k \in 0 .. n] ==
        LET bits == Lower(8 - from, k) IN
        IF k = 0 THEN 0
        ELSE ((payload[(offset + n - k) \div 8 + 1] \div 2 ^ from) % 2 ^ bits) * 2 ^ (n - k)
               + rest[k - bits]
  IN rest[n]

(***************************************************************************)
(* The bits are collected byte by byte: k of the n bits remain, and the    *)
(* bits of the next byte from its first unread bit on are put above what   *)
(* has been read.                                                          *)
(***************************************************************************)
ParseSingleByte(offset, n) ==
  LET Lower(a, b) == IF a < b THEN a ELSE b
      rest[k \in 0 .. n] ==
        LET at   == offset + n - k
            from == IF k = n THEN offset % 8 ELSE 0
            bits == Lower(8 - from, k)
        IN IF k = 0 THEN 0
           ELSE ((payload[at \div 8 + 1] \div 2 ^ from) % 2 ^ bits) * 2 ^ (n - k) + rest[k - bits]
  IN rest[n]

(* Otherwise the function returns an error and leaves OutputData alone. *)
Parses(n) == n \in 1 .. 32 /\ bitsOffset + n <= 8 * Len(payload)

(***************************************************************************)
(* What the caller then holds in DataByte: its checks for an error,        *)
(* "Status < 0" on an unsigned status, never hold.                         *)
(***************************************************************************)
Parsed(n) == IF Parses(n) THEN ParseSingleByte(bitsOffset, n) ELSE dataByte

-----------------------------------------------------------------------------
(* The codes *)

Config == ConfigData(layout)
Code == Config[index + 1]
Operand == Config[index + 2]

Executes(codes) == ~done /\ index < Len(Config) /\ Code \in codes

(* goto exit, or the end of ConfigData. *)
Return ==
  /\ ~done
  /\ index < Len(Config) => Code = TOUCH_END
  /\ done' = TRUE
  /\ UNCHANGED <<report, index, next, bitsOffset, objectIndex, activeOnly, dataByte, touch>>

Foreach ==
  /\ Executes({TOUCH_FOREACH_ACTIVE_OBJECT, TOUCH_FOREACH_OBJECT})
  /\ activeOnly' = (Code = TOUCH_FOREACH_ACTIVE_OBJECT)
  /\ objectIndex' = 0
  /\ index' = index + 1 /\ next' = index + 1
  /\ UNCHANGED <<report, bitsOffset, dataByte, touch, done>>

(* Mutant of ForeachEnd: the loop goes back to its end, not to its beginning. *)
MutForeachEnd ==
  /\ Executes({TOUCH_FOREACH_END})
  /\ objectIndex' = IF activeOnly THEN objectIndex ELSE objectIndex + 1
  /\ index' = IF IF activeOnly THEN bitsOffset < 8 * Len(payload) ELSE objectIndex' < MAX_FINGER
              THEN index ELSE index + 1
  /\ UNCHANGED <<report, next, bitsOffset, activeOnly, dataByte, touch, done>>

(***************************************************************************)
(* The active objects go on as long as there are bits, for                 *)
(* ActiveObjectsNum is never set; the objects of a table are counted.      *)
(***************************************************************************)
ForeachEnd ==
  /\ Executes({TOUCH_FOREACH_END})
  /\ objectIndex' = IF activeOnly THEN objectIndex ELSE objectIndex + 1
  /\ index' = IF IF activeOnly THEN bitsOffset < 8 * Len(payload) ELSE objectIndex' < MAX_FINGER
              THEN next ELSE index + 1
  /\ UNCHANGED <<report, next, bitsOffset, activeOnly, dataByte, touch, done>>

PadToNextByte ==
  /\ Executes({TOUCH_PAD_TO_NEXT_BYTE})
  /\ bitsOffset' = ((bitsOffset + 7) \div 8) * 8
  /\ index' = index + 1
  /\ UNCHANGED <<report, next, objectIndex, activeOnly, dataByte, touch, done>>

(* Whole bytes, 20 at most; BitsToRead is unsigned and passes by 0 when it   *)
(* is not a multiple of 8.                                                   *)
GestureInfo ==
  /\ Executes({TOUCH_CUSTOMER_GESTURE_INFO})
  /\ bitsOffset' = bitsOffset + (IF Operand % 8 = 0 /\ Operand <= 160 THEN Operand ELSE 160)
  /\ index' = index + 2
  /\ UNCHANGED <<report, next, objectIndex, activeOnly, dataByte, touch, done>>

(* Mutant of ObjectNIndex: the index is not compared with MAX_FINGER. *)
MutObjectNIndex ==
  /\ Executes({TOUCH_OBJECT_N_INDEX})
  /\ dataByte' = Parsed(Operand)
  /\ index' = index + 2
  /\ objectIndex' = dataByte' /\ bitsOffset' = bitsOffset + Operand
  /\ UNCHANGED <<report, next, activeOnly, touch, done>>

(* An index that is too large ends the interpretation. *)
ObjectNIndex ==
  /\ Executes({TOUCH_OBJECT_N_INDEX})
  /\ dataByte' = Parsed(Operand)
  /\ index' = index + 2
  /\ IF dataByte' < MAX_FINGER
     THEN objectIndex' = dataByte' /\ bitsOffset' = bitsOffset + Operand /\ UNCHANGED done
     ELSE objectIndex' = MAX_FINGER - 1 /\ done' = TRUE /\ UNCHANGED bitsOffset
  /\ UNCHANGED <<report, next, activeOnly, touch>>

(* A field of an object or of the frame. *)
Field(codes, newTouch) ==
  /\ Executes(codes)
  /\ touch' = newTouch
  /\ bitsOffset' = bitsOffset + Operand
  /\ index' = index + 2
  /\ UNCHANGED <<report, next, objectIndex, activeOnly, done>>

Classification ==
  /\ dataByte' = Parsed(Operand)
  /\ Field({TOUCH_OBJECT_N_CLASSIFICATION},
           [touch EXCEPT !.status = IF dataByte' >= 1 THEN 1 ELSE @])

(* TouchX and TouchY have 16 bits. *)
XPosition ==
  /\ dataByte' = Parsed(Operand)
  /\ Field({TOUCH_OBJECT_N_X_POSITION}, [touch EXCEPT !.x = dataByte' % 2 ^ 16])

YPosition ==
  /\ dataByte' = Parsed(Operand)
  /\ Field({TOUCH_OBJECT_N_Y_POSITION}, [touch EXCEPT !.y = dataByte' % 2 ^ 16])

(* "Unused data in UEFI": every other code has an operand and is skipped. *)
OtherField == UNCHANGED dataByte /\ Field({TOUCH_TIMESTAMP, TOUCH_OBJECT_N_Z}, touch)

Next ==
  \/ Return \/ Foreach \/ ForeachEnd \/ PadToNextByte \/ GestureInfo
  \/ ObjectNIndex \/ Classification \/ XPosition \/ YPosition \/ OtherField

Spec == Init /\ [][Next]_vars

(* The interpretation is a loop of the processor. *)
FairSpec == Spec /\ WF_vars(Next)

-----------------------------------------------------------------------------
(* Properties *)

(* Every variable has its type. *)
TypeOK ==
  /\ index \in 0 .. Len(Config) /\ next \in 0 .. Len(Config)
  /\ bitsOffset \in Nat
  /\ objectIndex \in 0 .. MAX_FINGER /\ activeOnly \in BOOLEAN
  /\ dataByte \in Nat
  /\ touch \in [status : {0, 1}, x : 0 .. 2 ^ 16 - 1, y : 0 .. 2 ^ 16 - 1]
  /\ done \in BOOLEAN

ExtractionExact ==
  (bitsOffset < 8 * Len(payload)) =>
    LET bits == FlattenSeq([i \in 1 .. Len(payload) |-> ToBits(payload[i], 8)]) IN
    \A n \in 1 .. 16 :
      Parses(n) => ParseSingleByte(bitsOffset, n) = Number(bits, bitsOffset, n)

LastObjectReported ==
  (done /\ layout \in Layouts) =>
    /\ touch.status = IF \E i \in 1 .. Len(objects) : objects[i].class > 0 THEN 1 ELSE 0
    /\ objects # <<>> => /\ touch.x = objects[Len(objects)].x
                         /\ touch.y = objects[Len(objects)].y

(* Bits that cross bytes are put together as the protocol orders them, the   *)
(* lowest first, wherever a field begins and however long it is; and so a    *)
(* report of the active objects yields a touch iff one of them has a class,  *)
(* and the position of the last: the padding byte, which is interpreted like *)
(* an object, changes nothing.                                               *)
ReportExact == ExtractionExact /\ LastObjectReported

(* The timer callback ends: every report is interpreted in finitely many     *)
(* steps.                                                                    *)
InterpretationEnds == <>done

=============================================================================
