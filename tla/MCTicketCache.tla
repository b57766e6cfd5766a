--------------------------- MODULE MCTicketCache ---------------------------
\* Keytabs of one and two entries, around the boundaries of the key version's two fields.
EXTENDS TicketCache, TLC

Entry(parts, kvno, enctype) ==
    [parts |-> parts, realm |-> <<67, 79>>, timestamp |-> 70000, kvno |-> kvno,
     enctype |-> enctype, key |-> <<74, 0, 255>>]
Aes256 == [kind |-> "Aes256CtsHmacSha196", code |-> 0]
Negative == [kind |-> "Unknown", code |-> -133]

MCKeytabs ==
    {<<Entry(<<<<115>>, <<97, 46>>>>, k, Aes256)>> : k \in {0, 2, 255}}
    \cup {<<Entry(<<<<115>>, <<97, 46>>>>, 256, Aes256), Entry(<<<<>>>>, 65537, Negative)>>}

Symmetry == Permutations(Renewer)

=============================================================================
