---------------------------- MODULE Expressions ----------------------------
(***************************************************************************)
(* The expressions of a rule as the constructors of src/expr build them,   *)
(* and what each reads from and writes to the registers of the nf_tables   *)
(* machine.  A byte string is a sequence of bytes.                         *)
(***************************************************************************)
EXTENDS Headers, Integers

(* u8 and u16.                                                             *)
Byte == {n \in Nat : n < 256}
Word == {n \in Nat : n < 65536}

(* u16::to_be_bytes, u32::to_be_bytes, u32::to_le_bytes.                   *)
BE16(n) == <<n \div 256, n % 256>>
BE32(n) == <<n \div 16777216, (n \div 65536) % 256, (n \div 256) % 256, n % 256>>
LE32(n) == <<n % 256, (n \div 256) % 256, (n \div 65536) % 256, n \div 16777216>>

Zeros(n) == [i \in 1..n |-> 0]

-----------------------------------------------------------------------------
(* Meta::new, Cmp::new, Conntrack::new: all use Reg1.                      *)
Meta(key) == [expr |-> "meta", dreg |-> "Reg1", key |-> key]

Cmp(op, data) == [expr |-> "cmp", sreg |-> "Reg1", op |-> op, data |-> data]

Conntrack(key) == [expr |-> "ct", dreg |-> "Reg1", key |-> key]

(* Bitwise::new with a mask and a xor of the same length.                  *)
Bitwise(mask, xor) ==
  [expr |-> "bitwise", sreg |-> "Reg1", dreg |-> "Reg1", len |-> Len(mask), mask |-> mask, xor |-> xor]

(* Bitwise::new returns BuilderError::IncompatibleLength otherwise.        *)
CompatibleLength(mask, xor) == Len(mask) = Len(xor)

(* Immediate::new_data and Immediate::new_verdict.                         *)
ImmediateData(data, register) == [expr |-> "immediate", dreg |-> register, data |-> data]

ImmediateVerdict(kind) == [expr |-> "immediate", dreg |-> "Verdict", verdict |-> kind]

(* The structs that rule_methods.rs fills field by field.                  *)
Nat4(ipRegister, portRegister) ==
  [expr |-> "nat", family |-> "Ipv4", ipRegister |-> ipRegister, portRegister |-> portRegister]

ExtHdrTCPOpt(sreg, typ, offset, len) ==
  [expr |-> "exthdr", sreg |-> sreg, typ |-> typ, offset |-> offset, len |-> len]

Rt(key, dreg) == [expr |-> "rt", dreg |-> dreg, key |-> key]

ByteorderHtoN(sreg, dreg, len, size) ==
  [expr |-> "byteorder", sreg |-> sreg, dreg |-> dreg, len |-> len, size |-> size]

PayloadRaw(base, offset, len, dreg) ==
  [expr |-> "payload", dreg |-> dreg, base |-> base, offset |-> offset, len |-> len]

Masquerade == [expr |-> "masq"]

Counter == [expr |-> "counter"]

(* Log::new, the prefix known by its length in bytes; more than            *)
(* MaxLogPrefix of them are BuilderError::TooLongLogPrefix.                *)
MaxLogPrefix == 127
NoLogGroup == 0

Log(group, prefix) == [expr |-> "log", group |-> group, prefix |-> prefix]

(* Mutant: the key is taken from the second register.                      *)
LookupReg2(setName, id) == [expr |-> "lookup", sreg |-> "Reg2", set |-> setName, setId |-> id]

(* Lookup::new on a set that has a name; id is << >> when it has no id.    *)
Lookup(setName, id) == [expr |-> "lookup", sreg |-> "Reg1", set |-> setName, setId |-> id]

-----------------------------------------------------------------------------
(***************************************************************************)
(* The registers (external): how many bytes the kernel stores for each key *)
(* that it loads, at most the 16 of a register.                            *)
(***************************************************************************)
MetaLen(key) ==
  CASE key \in {"NfProto", "L4Proto"} -> 1
    [] key \in {"Protocol", "IifType", "OifType"} -> 2
    [] key \in {"IifName", "OifName"} -> 16
    [] OTHER -> 4

(* The register an expression writes: "none" for a comparison or a         *)
(* statement, "Verdict" for a verdict.                                     *)
Writes(e) ==
  IF e.expr \in {"meta", "payload", "ct", "rt", "bitwise", "byteorder", "immediate"}
  THEN e.dreg ELSE "none"

(* How many bytes it writes there.                                         *)
WriteLen(e) ==
  CASE e.expr = "meta" -> MetaLen(e.key)
    [] e.expr \in {"payload", "bitwise", "byteorder"} -> e.len
    [] e.expr = "ct" -> 4
    [] e.expr = "rt" -> 2
    [] e.expr = "immediate" /\ e.dreg # "Verdict" -> Len(e.data)
    [] OTHER -> 0

(* The registers an expression reads, each with the number of bytes.  A    *)
(* nat statement reads an address of its family and a port.                *)
Reads(e) ==
  CASE e.expr = "cmp" -> {<<e.sreg, Len(e.data)>>}
    [] e.expr \in {"bitwise", "byteorder", "exthdr"} -> {<<e.sreg, e.len>>}
    [] e.expr = "nat" -> {<<e.ipRegister, 4>>} \cup
                         (IF e.portRegister = "none" THEN {} ELSE {<<e.portRegister, 2>>})
    [] OTHER -> {}

=============================================================================
