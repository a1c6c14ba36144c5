------------------------------ MODULE MCUnits ------------------------------
(***************************************************************************)
(* The units of PureUnits on small words, with the immediates they are     *)
(* tried with.                                                             *)
(***************************************************************************)
EXTENDS PureUnits

\* Walking ones and zeros, with either sign, in every format: the decoder is a
\* wiring of bits, so these tell any two wirings apart.
Pattern(k, bit, sign, opcode) ==
    [ i \in BitNo |-> IF i >= SignBit(opcode) THEN sign
                      ELSE IF i \notin Encodable(opcode) THEN 0
                      ELSE IF i = k THEN bit ELSE 1 - bit ]
MCSampled(opcode) == { Pattern(k, bit, sign, opcode) : k \in BitNo, bit, sign \in 0 .. 1 }

\* The bits beside the immediate all 0, or all 1.
MCBeside == { [ i \in BitNo |-> b ] : b \in 0 .. 1 }

=============================================================================
