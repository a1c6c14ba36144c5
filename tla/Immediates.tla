----------------------------- MODULE Immediates -----------------------------
(***************************************************************************)
(* Immediate generation of the decoder (rtl/generated/decoder.v), bit by   *)
(* bit. A word is a function from bit numbers to bits; a concatenation     *)
(* {a, b, ...} is a sequence of bits, most significant first.              *)
(***************************************************************************)
EXTENDS Integers, Sequences

BitNo == 0 .. 31

\* w[h:l], and {n{b}}.
Slice(w, h, l)  == [ i \in 1 .. h - l + 1 |-> w[h + 1 - i] ]
Replicate(n, b) == [ i \in 1 .. n |-> b ]
Zeros(n)        == Replicate(n, 0)

\* The word a concatenation of 32 bits stands for.
WordOf(bits) == [ i \in BitNo |-> bits[32 - i] ]

ImmI(w) == Replicate(20, w[31]) \o Slice(w, 31, 20)
ImmS(w) == Replicate(20, w[31]) \o Slice(w, 31, 25) \o Slice(w, 11, 7)

\* Mutant: bits 7 and 31 of a branch change places, as in a J-type immediate.
ImmBSwapped(w) == Replicate(20, w[7]) \o << w[31] >> \o Slice(w, 30, 25)
                  \o Slice(w, 11, 8) \o << 0 >>

ImmB(w) == Replicate(20, w[31]) \o << w[7] >> \o Slice(w, 30, 25)
           \o Slice(w, 11, 8) \o << 0 >>
ImmJ(w) == Replicate(12, w[31]) \o Slice(w, 19, 12) \o << w[20] >>
           \o Slice(w, 30, 21) \o << 0 >>
ImmU(w) == Slice(w, 31, 12) \o Zeros(12)

\* imm of the decoder for an instruction of the given opcode.
Imm(opcode, w) ==
    WordOf(CASE opcode \in {"ITYPE", "LOAD", "JALR"} -> ImmI(w)
             [] opcode = "STORE"           -> ImmS(w)
             [] opcode = "BRANCH"          -> ImmB(w)
             [] opcode = "JAL"             -> ImmJ(w)
             [] opcode \in {"LUI", "AUIPC"} -> ImmU(w)
             [] OTHER                      -> Zeros(32))

=============================================================================
