------------------------------ MODULE RegDump -------------------------------
(***************************************************************************)
(* The pure part of dbg_read_regs (src/src/xauto_cmd.cpp): from the words  *)
(* of x64dbg's register dump to the fields of the reply. A word is a       *)
(* natural number; bits are counted from 0.                                *)
(***************************************************************************)
EXTENDS Naturals, Sequences, FiniteSets

(* The width-bit field of w that begins at bit "low". *)
Bits(w, low, width) == (w \div 2 ^ low) % 2 ^ width
Bit(w, n) == Bits(w, n, 1)

(* What the masks and shifts of the source select: name, lowest bit, width,*)
(* in the order of the fields in the reply.                                *)
Field(name, low, width) == [name |-> name, low |-> low, width |-> width]
Flag(name, bit) == Field(name, bit, 1)

(* Mutant of MxcsrFields: the rounding control one bit too low. *)
MxcsrFieldsShifted ==
  <<Flag("FZ", 15), Flag("PM", 12), Flag("UM", 11), Flag("OM", 10),
    Flag("ZM", 9), Flag("IM", 7), Flag("DM", 8), Flag("DAZ", 6),
    Flag("PE", 5), Flag("UE", 4), Flag("OE", 3), Flag("ZE", 2),
    Flag("DE", 1), Flag("IE", 0), Field("RC", 12, 2)>>

MxcsrFields ==
  <<Flag("FZ", 15), Flag("PM", 12), Flag("UM", 11), Flag("OM", 10),
    Flag("ZM", 9), Flag("IM", 7), Flag("DM", 8), Flag("DAZ", 6),
    Flag("PE", 5), Flag("UE", 4), Flag("OE", 3), Flag("ZE", 2),
    Flag("DE", 1), Flag("IE", 0), Field("RC", 13, 2)>>

StatusFields ==
  <<Flag("B", 15), Flag("C3", 14), Flag("C2", 10), Flag("C1", 9), Flag("C0", 8),
    Flag("ES", 7), Flag("SF", 6), Flag("P", 5), Flag("U", 4), Flag("O", 3),
    Flag("Z", 2), Flag("D", 1), Flag("I", 0), Field("TOP", 11, 3)>>

ControlFields ==
  <<Flag("IC", 12), Flag("IEM", 7), Flag("PM", 5), Flag("UM", 4), Flag("OM", 3),
    Flag("ZM", 2), Flag("DM", 1), Flag("IM", 0), Field("RC", 10, 2),
    Field("PC", 8, 2)>>

(* GetMxCsrFields, Getx87StatusWordFields, Getx87ControlWordFields: the    *)
(* values of the fields, in the order of the reply.                        *)
Decoded(w, fields) ==
  [i \in 1 .. Len(fields) |-> Bits(w, fields[i].low, fields[i].width)]

TOP(status) == Bits(status, 11, 3)

(* Mutant of r0Position: the top of the stack itself. *)
r0PositionIsTop(top) == top

(* Where register 0 is in RegisterArea, which begins with ST(0). *)
r0Position(top) == (8 - top) % 8

(* Register i: the slot of RegisterArea it is copied from, its place in    *)
(* the stack, and its tag. mmx[i] is the low half of the same copy.        *)
x87Register(status, tagWord, i) ==
  LET slot == (r0Position(TOP(status)) + i) % 8
  IN  [tag |-> Bits(tagWord, 2 * i, 2), st_value |-> slot, slot |-> slot]

x87Registers(status, tagWord) ==
  [i \in 0 .. 7 |-> x87Register(status, tagWord, i)]

(* The flags of the reply are those of a structure set to zero, which      *)
(* nothing is assigned to: c p a z s t i d o.                              *)
FlagBits == <<0, 2, 4, 6, 7, 8, 9, 10, 11>>
Flags(eflags) == [i \in 1 .. 9 |-> 0]

RegDump(rd) ==
  [eflags  |-> rd.eflags,
   mxcsr   |-> Decoded(rd.mxcsr, MxcsrFields),
   control |-> Decoded(rd.control, ControlFields),
   status  |-> Decoded(rd.status, StatusFields),
   fpu     |-> x87Registers(rd.status, rd.tag),
   flags   |-> Flags(rd.eflags)]

-----------------------------------------------------------------------------
(* What the reply should be: the processor's layout of the words.          *)

(* Where the processor keeps what, from bit 0.                             *)
MxcsrLayout == <<"IE", "DE", "ZE", "OE", "UE", "PE", "DAZ", "IM", "DM", "ZM", "OM", "UM",
                 "PM", "RC", "RC", "FZ">>
StatusLayout == <<"I", "D", "Z", "O", "U", "P", "SF", "ES", "C0", "C1", "C2", "TOP", "TOP",
                  "TOP", "C3", "B">>
ControlLayout == <<"IM", "DM", "ZM", "OM", "UM", "PM", "-", "IEM", "PC", "PC", "RC", "RC", "IC">>

(* Bit b of the word is found again in the field the layout names.         *)
Shows(values, fields, layout, w) ==
  \A b \in 1 .. Len(layout) : layout[b] # "-" =>
    \E i \in 1 .. Len(fields) :
      LET before == Cardinality({c \in 1 .. b - 1 : layout[c] = layout[b]})
      IN  fields[i].name = layout[b] /\ Bit(values[i], before) = Bit(w, b - 1)

(* Every flag and field is its bits of the word, and each x87 register     *)
(* comes with its contents (RegisterArea begins with ST(0)), its place in  *)
(* the stack and its tag.                                                  *)
Faithful(d, rd) ==
  /\ Shows(d.mxcsr, MxcsrFields, MxcsrLayout, rd.mxcsr)
  /\ Shows(d.status, StatusFields, StatusLayout, rd.status)
  /\ Shows(d.control, ControlFields, ControlLayout, rd.control)
  /\ \A i \in 0 .. 7 :
       LET r == d.fpu[i]
       IN  /\ (Bits(rd.status, 11, 3) + r.st_value) % 8 = i
           /\ r.slot = r.st_value
           /\ r.tag = Bits(rd.tag, 2 * i, 2)
=============================================================================
