---------------------------- MODULE RegDumpProofs ----------------------------
(***************************************************************************)
(* The reply of dbg_read_regs is right for every word: each bit comes back *)
(* in the field the processor's layout names.                              *)
(***************************************************************************)
EXTENDS RegDump, FiniteSetTheorems, TLAPS

(* A flag holds its bit of the word. A power of two is evaluated by the    *)
(* solver where the exponent is a number, so each bit has its case.        *)
LEMMA FlagBit ==
  ASSUME NEW w \in Nat, NEW n \in 0 .. 15
  PROVE  Bit(Bits(w, n, 1), 0) = Bit(w, n)
  <1>0. CASE n = 0
    BY <1>0 DEF Bit, Bits
  <1>1. CASE n = 1
    BY <1>1 DEF Bit, Bits
  <1>2. CASE n = 2
    BY <1>2 DEF Bit, Bits
  <1>3. CASE n = 3
    BY <1>3 DEF Bit, Bits
  <1>4. CASE n = 4
    BY <1>4 DEF Bit, Bits
  <1>5. CASE n = 5
    BY <1>5 DEF Bit, Bits
  <1>6. CASE n = 6
    BY <1>6 DEF Bit, Bits
  <1>7. CASE n = 7
    BY <1>7 DEF Bit, Bits
  <1>8. CASE n = 8
    BY <1>8 DEF Bit, Bits
  <1>9. CASE n = 9
    BY <1>9 DEF Bit, Bits
  <1>10. CASE n = 10
    BY <1>10 DEF Bit, Bits
  <1>11. CASE n = 11
    BY <1>11 DEF Bit, Bits
  <1>12. CASE n = 12
    BY <1>12 DEF Bit, Bits
  <1>13. CASE n = 13
    BY <1>13 DEF Bit, Bits
  <1>14. CASE n = 14
    BY <1>14 DEF Bit, Bits
  <1>15. CASE n = 15
    BY <1>15 DEF Bit, Bits
  <1> QED
    BY <1>0, <1>1, <1>2, <1>3, <1>4, <1>5, <1>6, <1>7, <1>8,
       <1>9, <1>10, <1>11, <1>12, <1>13, <1>14, <1>15

(* The wider fields hold theirs, from the lowest bit on. *)
LEMMA WideBits ==
  ASSUME NEW w \in Nat
  PROVE  /\ \A low \in {8, 10, 13} : /\ Bit(Bits(w, low, 2), 0) = Bit(w, low)
                                    /\ Bit(Bits(w, low, 2), 1) = Bit(w, low + 1)
         /\ Bit(Bits(w, 11, 3), 0) = Bit(w, 11)
         /\ Bit(Bits(w, 11, 3), 1) = Bit(w, 12)
         /\ Bit(Bits(w, 11, 3), 2) = Bit(w, 13)
  <1>1. Bit(Bits(w, 8, 2), 0) = Bit(w, 8) /\ Bit(Bits(w, 8, 2), 1) = Bit(w, 8 + 1)
    BY DEF Bit, Bits
  <1>2. Bit(Bits(w, 10, 2), 0) = Bit(w, 10) /\ Bit(Bits(w, 10, 2), 1) = Bit(w, 10 + 1)
    BY DEF Bit, Bits
  <1>3. Bit(Bits(w, 13, 2), 0) = Bit(w, 13) /\ Bit(Bits(w, 13, 2), 1) = Bit(w, 13 + 1)
    BY DEF Bit, Bits
  <1>4. /\ Bit(Bits(w, 11, 3), 0) = Bit(w, 11)
        /\ Bit(Bits(w, 11, 3), 1) = Bit(w, 12)
        /\ Bit(Bits(w, 11, 3), 2) = Bit(w, 13)
    BY DEF Bit, Bits
  <1> QED
    BY <1>1, <1>2, <1>3, <1>4

-----------------------------------------------------------------------------
(* Layouts.                                                                *)

Before(layout, b) == Cardinality({c \in 1 .. b - 1 : layout[c] = layout[b]})

(* Bit b of the word is found again. *)
ShowsBit(values, fields, layout, w, b) ==
  \E i \in 1 .. Len(fields) :
    fields[i].name = layout[b] /\ Bit(values[i], Before(layout, b)) = Bit(w, b - 1)

LEMMA BitByBit ==
  ASSUME NEW values, NEW fields, NEW layout, NEW w,
         \A b \in 1 .. Len(layout) : layout[b] # "-" => ShowsBit(values, fields, layout, w, b)
  PROVE  Shows(values, fields, layout, w)
  BY DEF Shows, ShowsBit, Before

(* A bit whose name is not used below it is shown by the flag of its name. *)
LEMMA FlagShown ==
  ASSUME NEW w \in Nat, NEW fields, NEW layout, NEW b \in 1 .. 16,
         NEW i \in 1 .. Len(fields), fields[i] = Flag(layout[b], b - 1),
         \A c \in 1 .. b - 1 : layout[c] # layout[b]
  PROVE  ShowsBit(Decoded(w, fields), fields, layout, w, b)
  <1>1. Before(layout, b) = 0
    <2>1. {c \in 1 .. b - 1 : layout[c] = layout[b]} = {}
      OBVIOUS
    <2> QED
      BY <2>1, FS_EmptySet DEF Before
  <1>2. fields[i].name = layout[b] /\ Decoded(w, fields)[i] = Bits(w, b - 1, 1)
    BY DEF Decoded, Flag, Field
  <1>3. Bit(Bits(w, b - 1, 1), 0) = Bit(w, b - 1)
    BY FlagBit
  <1> QED
    BY <1>1, <1>2, <1>3 DEF ShowsBit

LEMMA TwoElements == \A x, y : x # y => Cardinality({x, y}) = 2
  <1> SUFFICES ASSUME NEW x, NEW y, x # y PROVE Cardinality({x, y}) = 2
    OBVIOUS
  <1>1. IsFiniteSet({x}) /\ Cardinality({x}) = 1 /\ y \notin {x} /\ {x} \union {y} = {x, y}
    BY FS_Singleton
  <1> QED
    BY <1>1, FS_AddElement

(* The bits of a wider field, which begins with bit b.                     *)
LEMMA WideShown ==
  ASSUME NEW w \in Nat, NEW fields, NEW layout, NEW b \in 1 .. 16, NEW width \in {2, 3},
         <<b, width>> \in {<<9, 2>>, <<11, 2>>, <<14, 2>>, <<12, 3>>},
         NEW i \in 1 .. Len(fields), fields[i] = Field(layout[b], b - 1, width),
         \A c \in 1 .. b - 1 : layout[c] # layout[b],
         \A c \in b .. b + width - 1 : layout[c] = layout[b]
  PROVE  \A c \in b .. b + width - 1 : ShowsBit(Decoded(w, fields), fields, layout, w, c)
  <1>1. /\ {c \in 1 .. b - 1 : layout[c] = layout[b]} = {}
        /\ {c \in 1 .. (b + 1) - 1 : layout[c] = layout[b + 1]} = {b}
        /\ width = 3 => {c \in 1 .. (b + 2) - 1 : layout[c] = layout[b + 2]} = {b, b + 1}
    OBVIOUS
  <1>2. /\ Before(layout, b) = 0 /\ Before(layout, b + 1) = 1
        /\ width = 3 => Before(layout, b + 2) = 2
    <2>1. Before(layout, b) = 0
      BY <1>1, FS_EmptySet DEF Before
    <2>2. Before(layout, b + 1) = 1
      BY <1>1, FS_Singleton, Zenon DEF Before
    <2>3. width = 3 => Before(layout, b + 2) = 2
      <3>1. Cardinality({b, b + 1}) = 2
        <4>1. b # b + 1
          OBVIOUS
        <4> QED
          BY <4>1, TwoElements, Zenon
      <3> QED
        BY <1>1, <3>1 DEF Before
    <2> QED
      BY <2>1, <2>2, <2>3
  <1>3. fields[i].name = layout[b] /\ Decoded(w, fields)[i] = Bits(w, b - 1, width)
    BY DEF Decoded, Field
  <1>4. /\ Bit(Bits(w, b - 1, width), 0) = Bit(w, b - 1)
        /\ Bit(Bits(w, b - 1, width), 1) = Bit(w, b)
        /\ width = 3 => Bit(Bits(w, b - 1, width), 2) = Bit(w, b + 1)
    BY WideBits
  <1>5. \A k \in 0 .. width - 1 :
          layout[b + k] = layout[b]
            /\ Bit(Decoded(w, fields)[i], Before(layout, b + k)) = Bit(w, (b + k) - 1)
    <2>1. layout[b + 1] = layout[b] /\ (width = 3 => layout[b + 2] = layout[b])
      OBVIOUS
    <2>2. b + 0 = b /\ (b + 1) - 1 = b /\ (b + 2) - 1 = b + 1
      OBVIOUS
    <2>3. ASSUME NEW k \in 0 .. width - 1 PROVE k = 0 \/ k = 1 \/ (k = 2 /\ width = 3)
      OBVIOUS
    <2> QED
      BY <1>2, <1>3, <1>4, <2>1, <2>2, <2>3
  <1>6. \A k \in 0 .. width - 1 : ShowsBit(Decoded(w, fields), fields, layout, w, b + k)
    BY <1>3, <1>5, Zenon DEF ShowsBit
  <1>7. ASSUME NEW c \in b .. b + width - 1
        PROVE  c - b \in 0 .. width - 1 /\ b + (c - b) = c
    OBVIOUS
  <1> QED
    BY <1>6, <1>7, Zenon

(* Where each flag of MXCSR is in the reply; the rounding control is last.  *)
LEMMA MxcsrShown ==
  ASSUME NEW w \in Nat
  PROVE  Shows(Decoded(w, MxcsrFields), MxcsrFields, MxcsrLayout, w)
  <1> DEFINE place == <<14, 13, 12, 11, 10, 9, 8, 6, 7, 5, 4, 3, 2, 15, 15, 1>>
             shown(b) == ShowsBit(Decoded(w, MxcsrFields), MxcsrFields, MxcsrLayout, w, b)
  <1>1. Len(MxcsrLayout) = 16 /\ Len(MxcsrFields) = 15
    BY DEF MxcsrLayout, MxcsrFields
  <1>2. ASSUME NEW b \in (1 .. 13) \union {16}
        PROVE  shown(b)
    <2>1. PICK i \in 1 .. 15 : MxcsrFields[i] = Flag(MxcsrLayout[b], b - 1)
      <3>1. place[b] \in 1 .. 15 /\ MxcsrFields[place[b]] = Flag(MxcsrLayout[b], b - 1)
        BY DEF MxcsrFields, MxcsrLayout
      <3> QED
        BY <3>1
    <2>2. b \in 1 .. 16 /\ \A c \in 1 .. b - 1 : MxcsrLayout[c] # MxcsrLayout[b]
      BY DEF MxcsrLayout
    <2> QED
      BY <1>1, <2>1, <2>2, FlagShown
  <1>3. \A c \in 14 .. 14 + 2 - 1 : shown(c)
    <2>1. MxcsrFields[15] = Field(MxcsrLayout[14], 14 - 1, 2)
      BY DEF MxcsrFields, MxcsrLayout
    <2>2. /\ \A c \in 1 .. 14 - 1 : MxcsrLayout[c] # MxcsrLayout[14]
          /\ \A c \in 14 .. 14 + 2 - 1 : MxcsrLayout[c] = MxcsrLayout[14]
      BY DEF MxcsrLayout
    <2>3. 15 \in 1 .. Len(MxcsrFields) /\ <<14, 2>> \in {<<9, 2>>, <<11, 2>>, <<14, 2>>, <<12, 3>>}
      BY <1>1
    <2> QED
      BY <2>1, <2>2, <2>3, WideShown
  <1>4. \A b \in 1 .. 16 : MxcsrLayout[b] # "-" => shown(b)
    BY <1>2, <1>3 DEF MxcsrLayout
  <1> HIDE DEF shown
  <1> QED
    BY <1>1, <1>4, BitByBit, Zenon DEF shown

(* The x87 status word: the top of the stack is last.  *)
LEMMA StatusShown ==
  ASSUME NEW w \in Nat
  PROVE  Shows(Decoded(w, StatusFields), StatusFields, StatusLayout, w)
  <1> DEFINE place == <<13, 12, 11, 10, 9, 8, 7, 6, 5, 4, 3, 14, 14, 14, 2, 1>>
             shown(b) == ShowsBit(Decoded(w, StatusFields), StatusFields, StatusLayout, w, b)
  <1>1. Len(StatusLayout) = 16 /\ Len(StatusFields) = 14
    BY DEF StatusLayout, StatusFields
  <1>2. ASSUME NEW b \in (1 .. 11) \union {15, 16}
        PROVE  shown(b)
    <2>1. PICK i \in 1 .. 14 : StatusFields[i] = Flag(StatusLayout[b], b - 1)
      <3>1. place[b] \in 1 .. 14 /\ StatusFields[place[b]] = Flag(StatusLayout[b], b - 1)
        BY DEF StatusFields, StatusLayout
      <3> QED
        BY <3>1
    <2>2. b \in 1 .. 16 /\ \A c \in 1 .. b - 1 : StatusLayout[c] # StatusLayout[b]
      BY DEF StatusLayout
    <2> QED
      BY <1>1, <2>1, <2>2, FlagShown
  <1>3. \A c \in 12 .. 12 + 3 - 1 : shown(c)
    <2>1. StatusFields[14] = Field(StatusLayout[12], 12 - 1, 3)
      BY DEF StatusFields, StatusLayout
    <2>2. /\ \A c \in 1 .. 12 - 1 : StatusLayout[c] # StatusLayout[12]
          /\ \A c \in 12 .. 12 + 3 - 1 : StatusLayout[c] = StatusLayout[12]
      BY DEF StatusLayout
    <2>3. 14 \in 1 .. Len(StatusFields) /\ <<12, 3>> \in {<<9, 2>>, <<11, 2>>, <<14, 2>>, <<12, 3>>}
      BY <1>1
    <2> QED
      BY <2>1, <2>2, <2>3, WideShown
  <1>4. \A b \in 1 .. 16 : StatusLayout[b] # "-" => shown(b)
    BY <1>2, <1>3 DEF StatusLayout
  <1> HIDE DEF shown
  <1> QED
    BY <1>1, <1>4, BitByBit, Zenon DEF shown

(* The x87 control word: one bit is reserved.  *)
LEMMA ControlShown ==
  ASSUME NEW w \in Nat
  PROVE  Shows(Decoded(w, ControlFields), ControlFields, ControlLayout, w)
  <1> DEFINE place == <<8, 7, 6, 5, 4, 3, 1, 2, 10, 10, 9, 9, 1>>
             shown(b) == ShowsBit(Decoded(w, ControlFields), ControlFields, ControlLayout, w, b)
  <1>1. Len(ControlLayout) = 13 /\ Len(ControlFields) = 10
    BY DEF ControlLayout, ControlFields
  <1>2. ASSUME NEW b \in (1 .. 6) \union {8, 13}
        PROVE  shown(b)
    <2>1. PICK i \in 1 .. 10 : ControlFields[i] = Flag(ControlLayout[b], b - 1)
      <3>1. place[b] \in 1 .. 10 /\ ControlFields[place[b]] = Flag(ControlLayout[b], b - 1)
        BY DEF ControlFields, ControlLayout
      <3> QED
        BY <3>1
    <2>2. b \in 1 .. 16 /\ \A c \in 1 .. b - 1 : ControlLayout[c] # ControlLayout[b]
      BY DEF ControlLayout
    <2> QED
      BY <1>1, <2>1, <2>2, FlagShown
  <1>3. \A c \in 9 .. 9 + 2 - 1 : shown(c)
    <2>1. ControlFields[10] = Field(ControlLayout[9], 9 - 1, 2)
      BY DEF ControlFields, ControlLayout
    <2>2. /\ \A c \in 1 .. 9 - 1 : ControlLayout[c] # ControlLayout[9]
          /\ \A c \in 9 .. 9 + 2 - 1 : ControlLayout[c] = ControlLayout[9]
      BY DEF ControlLayout
    <2>3. 10 \in 1 .. Len(ControlFields) /\ <<9, 2>> \in {<<9, 2>>, <<11, 2>>, <<14, 2>>, <<12, 3>>}
      BY <1>1
    <2> QED
      BY <2>1, <2>2, <2>3, WideShown
  <1>4. \A c \in 11 .. 11 + 2 - 1 : shown(c)
    <2>1. ControlFields[9] = Field(ControlLayout[11], 11 - 1, 2)
      BY DEF ControlFields, ControlLayout
    <2>2. /\ \A c \in 1 .. 11 - 1 : ControlLayout[c] # ControlLayout[11]
          /\ \A c \in 11 .. 11 + 2 - 1 : ControlLayout[c] = ControlLayout[11]
      BY DEF ControlLayout
    <2>3. 9 \in 1 .. Len(ControlFields) /\ <<11, 2>> \in {<<9, 2>>, <<11, 2>>, <<14, 2>>, <<12, 3>>}
      BY <1>1
    <2> QED
      BY <2>1, <2>2, <2>3, WideShown
  <1>5. \A b \in 1 .. 13 : ControlLayout[b] # "-" => shown(b)
    BY <1>2, <1>3, <1>4 DEF ControlLayout
  <1> HIDE DEF shown
  <1> QED
    BY <1>1, <1>5, BitByBit, Zenon DEF shown

-----------------------------------------------------------------------------
(* The x87 registers.                                                      *)

LEMMA TopIsThree == ASSUME NEW w \in Nat PROVE TOP(w) \in 0 .. 7
  BY DEF TOP, Bits

(* Whatever the top of the stack is, the slot of register i is its place   *)
(* above the top.                                                          *)
LEMMA PlaceAboveTop ==
  ASSUME NEW top \in 0 .. 7, NEW i \in 0 .. 7
  PROVE  (top + ((r0Position(top) + i) % 8)) % 8 = i
  BY DEF r0Position

(* For any words of the register dump, the decoded reply shows every bit   *)
(* the processor defines in the field of its name, and every x87 register  *)
(* with its own contents, place and tag: the masks, shifts and the         *)
(* rotation of dbg_read_regs.                                              *)
THEOREM DumpFaithful ==
  ASSUME NEW rd \in [eflags : Nat, mxcsr : Nat, control : Nat, status : Nat, tag : Nat]
  PROVE  Faithful(RegDump(rd), rd)
  <1> DEFINE d == RegDump(rd)
  <1>1. /\ d.mxcsr = Decoded(rd.mxcsr, MxcsrFields)
        /\ d.status = Decoded(rd.status, StatusFields)
        /\ d.control = Decoded(rd.control, ControlFields)
        /\ d.fpu = x87Registers(rd.status, rd.tag)
    BY DEF RegDump
  <1>2. /\ Shows(d.mxcsr, MxcsrFields, MxcsrLayout, rd.mxcsr)
        /\ Shows(d.status, StatusFields, StatusLayout, rd.status)
        /\ Shows(d.control, ControlFields, ControlLayout, rd.control)
    BY <1>1, MxcsrShown, StatusShown, ControlShown
  <1>3. ASSUME NEW i \in 0 .. 7
        PROVE  /\ (Bits(rd.status, 11, 3) + d.fpu[i].st_value) % 8 = i
               /\ d.fpu[i].slot = d.fpu[i].st_value
               /\ d.fpu[i].tag = Bits(rd.tag, 2 * i, 2)
    <2> DEFINE slot == (r0Position(TOP(rd.status)) + i) % 8
    <2>1. d.fpu[i] = [tag |-> Bits(rd.tag, 2 * i, 2), st_value |-> slot, slot |-> slot]
      BY <1>1 DEF x87Registers, x87Register
    <2>2. (Bits(rd.status, 11, 3) + slot) % 8 = i
      <3>1. TOP(rd.status) \in 0 .. 7
        BY TopIsThree
      <3>2. (TOP(rd.status) + slot) % 8 = i
        BY <3>1, PlaceAboveTop
      <3> QED
        BY <3>2 DEF TOP
    <2> HIDE DEF d, slot
    <2> QED
      BY <2>1, <2>2
  <1> QED
    BY <1>2, <1>3 DEF Faithful
=============================================================================
