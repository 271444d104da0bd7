---------------------------- MODULE WasmMetadata ----------------------------
(***************************************************************************)
(* parseWASMMetadata: the walk over the sections of a contract's code and  *)
(* the counts it takes from their first bytes.                             *)
(*                                                                         *)
(* A compiler, external, writes the sections: each its type, its size and  *)
(* its contents, which begin with the number of elements; sizes and counts *)
(* are unsigned LEB128 numbers, of which sizes may be padded.  The ledger  *)
(* holds only code that the host has validated, so the magic number is     *)
(* there, sections are whole, and none is written twice.  Numbers stay     *)
(* below 2^28, where int64 does not overflow.                              *)
(***************************************************************************)
EXTENDS Integers, Sequences, SequencesExt

CONSTANTS SectionTypes, \* of the sections that the compiler may write
          Counts,       \* numbers of elements
          Fillings,     \* bytes that the elements take
          NoCount       \* a nil field

\* Type, import, function, table, global, export, element and data sections.
Counted     == {1, 2, 3, 4, 6, 7, 9, 11}
CodeSection == 10
DataSection == 11
HeaderSize  == 8

-----------------------------------------------------------------------------
(* The compiler.                                                            *)

Unsigned(n) == IF n < 128 THEN << n >> ELSE << 128 + (n % 128), n \div 128 >>
Padded(n)   == << 128 + (n % 128), 128 + (n \div 128), 128, 128, 0 >>

Zeros(n) == [k \in 1 .. n |-> 0]

Contents(section) == Unsigned(section.count) \o Zeros(section.filling)

Bytes(section) ==
    LET size == Len(Contents(section))
    IN  << section.type >> \o (IF section.padded THEN Padded(size) ELSE Unsigned(size))
        \o Contents(section)

\* An element takes a byte at least.
Section == {s \in [type : SectionTypes, count : Counts, filling : Fillings, padded : BOOLEAN] :
               s.filling >= s.count}

Modules == {<< >>} \cup {<< a >> : a \in Section}
           \cup {<< a, b >> : a \in Section, b \in Section}

-----------------------------------------------------------------------------
VARIABLES sections,  \* what the compiler wrote, never assigned
          code,      \* its bytes, never assigned
          offset,    \* counted from 0
          done, counts, codeBytes, dataBytes

vars == << sections, code, offset, done, counts, codeBytes, dataBytes >>

Init ==
    /\ sections \in {m \in Modules : Len(m) = 2 => m[1].type < m[2].type}
    /\ code = Zeros(HeaderSize) \o FlattenSeq([n \in DOMAIN sections |-> Bytes(sections[n])])
    /\ offset = HeaderSize /\ done = FALSE
    /\ counts = [type \in Counted |-> NoCount]
    /\ codeBytes = NoCount /\ dataBytes = NoCount

\* decodeLEB128: the number in the first bytes of data, extended from bit six
\* of its last byte as a signed one, and how many bytes it took; at most ten.
DecodeLEB128(data) ==
    LET window == SubSeq(data, 1, IF Len(data) < 10 THEN Len(data) ELSE 10)
        last   == SelectInSeq(window, LAMBDA b : b < 128)
        group(k) == (data[k] % 128) * 128 ^ (k - 1)
        value  == FoldLeft(LAMBDA sum, k : sum + group(k), 0, [k \in 1 .. last |-> k])
    IN  IF last = 0 THEN [value |-> 0, read |-> Len(window)]
        ELSE [value |-> IF data[last] >= 64 THEN value - 128 ^ last ELSE value, read |-> last]

CountWASMElements(data) == IF data = << >> THEN 0 ELSE DecodeLEB128(data).value

From(n) == SubSeq(code, n + 1, Len(code))
Size    == DecodeLEB128(From(offset + 1))
Start   == offset + 1 + Size.read

HasSection == ~done /\ offset + 1 < Len(code)
SizeFits   == Size.value >= 0 /\ Start + Size.value <= Len(code)

ReadSection ==
    LET type == code[offset + 1]
        data == SubSeq(code, Start + 1, Start + Size.value)
    IN  /\ HasSection /\ SizeFits
        /\ counts' = IF type \in Counted
                     THEN [counts EXCEPT ![type] = CountWASMElements(data)] ELSE counts
        /\ codeBytes' = IF type = CodeSection /\ CountWASMElements(data) > 0
                        THEN Len(data) ELSE codeBytes
        /\ dataBytes' = IF type = DataSection THEN Len(data) ELSE dataBytes
        /\ offset' = Start + Size.value
        /\ UNCHANGED << sections, code, done >>

\* The end of the code, or a size that leads out of it.
EndOfWalk ==
    /\ ~done /\ ~(HasSection /\ SizeFits)
    /\ done' = TRUE
    /\ UNCHANGED << sections, code, offset, counts, codeBytes, dataBytes >>

Terminated == done /\ UNCHANGED vars

Next == ReadSection \/ EndOfWalk \/ Terminated

Spec == Init /\ [][Next]_vars

-----------------------------------------------------------------------------
\* countWASMElements "counts the number of elements in a WASM section", and the
\* walk comes to every section: the number of each counted section that the
\* compiler wrote is in its field.
ElementsAreCounted ==
    done => \A n \in DOMAIN sections :
        sections[n].type \in Counted => counts[sections[n].type] = sections[n].count
=============================================================================
