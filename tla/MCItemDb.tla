----------------------------- MODULE MCItemDb -----------------------------
(* The tables as they are shipped, and every code they know, with codes    *)
(* beside the bounds of is_esrank and some that nothing is known of.       *)
EXTENDS ItemDb, ItemCodes

Bytes(code, number) == <<ClassOf(code), TypeOf(code), number, 0>>

Known == UNION {{e.key : e \in ItemDbTables[i]} : i \in 1 .. Len(ItemDbTables)}

ReadCodes ==
    {Bytes(code, code % \h0100) : code \in Known}
    \cup {Bytes(code, 7) : code \in {k \in Known : ClassOf(k) = 2}}
    \cup {<<class, type, number, 0>> :
             class \in 0 .. 5, number \in {0, 9},
             type \in {0, 3, \h6F, \h70, \h88, \h89, \hA4, \hA5, \hA9, \hAA, 255}}

MCTables == ItemDbTables
MCFullcodes == ReadCodes
MCReaders == {"main"}

===========================================================================
