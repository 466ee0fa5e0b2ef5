------------------------------- MODULE Segments -----------------------------
(***************************************************************************)
(* The descriptors of src/src/arch_x86/gdt.c and idt.c, as the code writes *)
(* them, field by field of its bit-field structures, and as the processor  *)
(* reads them, by the positions of the bits.                               *)
(***************************************************************************)
EXTENDS Integers

Bits == 0 .. 63

NoDescriptor == [b \in Bits |-> 0]

Field(first, width) == [first |-> first, width |-> width]

(* The structures of the union seg_desc_t, laid out from bit 0 on.         *)
seg_desc_t ==
  [limit_lo16 |-> Field(0, 16), base_addr_lo16 |-> Field(16, 16),
   base_addr_md8 |-> Field(32, 8), accessed |-> Field(40, 1),
   access |-> Field(41, 2), code_seg |-> Field(43, 1),
   code_or_data |-> Field(44, 1), dpl |-> Field(45, 2), present |-> Field(47, 1),
   limit_hi4 |-> Field(48, 4), avl |-> Field(52, 1), code_64b |-> Field(53, 1),
   seg_32b |-> Field(54, 1), granularity |-> Field(55, 1),
   base_addr_hi8 |-> Field(56, 8),
   code_readable |-> Field(41, 1), code_conforming |-> Field(42, 1),
   data_writable |-> Field(41, 1), data_expand_down |-> Field(42, 1),
   sys_type |-> Field(40, 4)]

gate_desc_t ==
  [offset_lo |-> Field(0, 16), segment_sel |-> Field(16, 16), zero |-> Field(32, 8),
   gate_type |-> Field(40, 5), dpl |-> Field(45, 2), present |-> Field(47, 1),
   offset_hi |-> Field(48, 16)]

(* A zeroed structure with values assigned to some of its fields.          *)
Assigned(layout, values) ==
  [b \in Bits |->
     LET here == {f \in DOMAIN values :
                    /\ b >= layout[f].first
                    /\ b < layout[f].first + layout[f].width}
     IN IF here = {} THEN 0
        ELSE LET f == CHOOSE g \in here : TRUE
             IN (values[f] \div 2 ^ (b - layout[f].first)) % 2]

(* Two sets of assignments to different fields.                            *)
Both(values, others) ==
  [f \in DOMAIN values \cup DOMAIN others |->
     IF f \in DOMAIN values THEN values[f] ELSE others[f]]

-----------------------------------------------------------------------------
(* gdt.c                                                                   *)

(* Variant: takes the middle byte of the address from bit 8 on.            *)
AddressAndLimitShort(base_addr, limit) ==
  [base_addr_lo16 |-> base_addr % 2 ^ 16,
   base_addr_md8 |-> (base_addr \div 2 ^ 8) % 2 ^ 8,
   base_addr_hi8 |-> (base_addr \div 2 ^ 24) % 2 ^ 8,
   limit_lo16 |-> limit % 2 ^ 16,
   limit_hi4 |-> (limit \div 2 ^ 16) % 2 ^ 4]

AddressAndLimit(base_addr, limit) ==
  [base_addr_lo16 |-> base_addr % 2 ^ 16,
   base_addr_md8 |-> (base_addr \div 2 ^ 16) % 2 ^ 8,
   base_addr_hi8 |-> (base_addr \div 2 ^ 24) % 2 ^ 8,
   limit_lo16 |-> limit % 2 ^ 16,
   limit_hi4 |-> (limit \div 2 ^ 16) % 2 ^ 4]

set_code_seg(base_addr, limit, dpl) ==
  Assigned(seg_desc_t,
           Both(AddressAndLimit(base_addr, limit),
                [code_or_data |-> 1, code_seg |-> 1, code_readable |-> 1,
                 dpl |-> dpl, seg_32b |-> 1, granularity |-> 1, present |-> 1]))

set_data_seg(base_addr, limit, dpl) ==
  Assigned(seg_desc_t,
           Both(AddressAndLimit(base_addr, limit),
                [code_or_data |-> 1, code_seg |-> 0, data_writable |-> 1,
                 dpl |-> dpl, seg_32b |-> 1, granularity |-> 1, present |-> 1]))

set_tss_seg(base_addr, limit, dpl) ==
  Assigned(seg_desc_t,
           Both(AddressAndLimit(base_addr, limit),
                [code_or_data |-> 0, sys_type |-> 9, dpl |-> dpl, present |-> 1]))

-----------------------------------------------------------------------------
(* idt.c                                                                   *)

INTERRUPT_GATE_32 == 14

(* What idt_set assigns for a handler at an address.                       *)
idt_set(handler) ==
  Assigned(gate_desc_t,
           [segment_sel |-> 8, offset_lo |-> handler % 2 ^ 16,
            offset_hi |-> handler \div 2 ^ 16, gate_type |-> INTERRUPT_GATE_32,
            dpl |-> 0, present |-> 1])

-----------------------------------------------------------------------------
(* The processor                                                           *)

(* The numbers in the first bits, none to width of them, of a field.       *)
Numbers(d, first, width) ==
  LET sum[k \in 0 .. width] ==
        IF k = 0 THEN 0 ELSE sum[k - 1] + d[first + k - 1] * 2 ^ (k - 1)
  IN sum

(* The number in some of the bits of a descriptor.                         *)
Number(d, first, width) == Numbers(d, first, width)[width]

(* Selectors are 8 times the index, plus the table and the level asked for. *)
IndexOf(selector) == selector \div 8
LevelOf(selector) == selector % 4

Base(d) == Number(d, 16, 24) + Number(d, 56, 8) * 2 ^ 24
Limit(d) == Number(d, 0, 16) + Number(d, 48, 4) * 2 ^ 16
Level(d) == Number(d, 45, 2)
Present(d) == d[47] = 1

(* All of the memory, in units of 4K and with operands of 32 bits.         *)
IsFlat(d) ==
  Present(d) /\ Base(d) = 0 /\ Limit(d) = 2 ^ 20 - 1 /\ Number(d, 53, 3) = 6

(* The type without its lowest bit, which the processor sets when it uses  *)
(* the segment: readable code that keeps its level, data that is written   *)
(* and grows upwards.                                                      *)
IsCode(d) == d[44] = 1 /\ Number(d, 41, 3) = 5
IsData(d) == d[44] = 1 /\ Number(d, 41, 3) = 1

(* Loading the task register takes an available 32-bit TSS and makes it    *)
(* busy.                                                                   *)
TssAvailable == 9
TssBusy == 11
IsTss(d, type) == Present(d) /\ Number(d, 40, 5) = type

GateOffset(d) == Number(d, 0, 16) + Number(d, 48, 16) * 2 ^ 16
GateSelector(d) == Number(d, 16, 16)
IsInterruptGate(d) == Present(d) /\ Number(d, 32, 13) = INTERRUPT_GATE_32 * 2 ^ 8
=============================================================================
