------------------------------- MODULE Lists -------------------------------
(***************************************************************************)
(* The doubly linked lists of the kernel, dl_list, as sequences.           *)
(***************************************************************************)
EXTENDS Integers, Sequences

Members(list) == {list[i] : i \in DOMAIN list}
NoRepeat(list) == \A i, j \in DOMAIN list : list[i] = list[j] => i = j

\* dl_list_del_init: an entry can be taken from anywhere in the list.
Without(list, x) ==
    LET at == CHOOSE i \in DOMAIN list : list[i] = x
    IN  IF x \in Members(list)
        THEN [i \in 1 .. Len(list) - 1 |-> list[IF i < at THEN i ELSE i + 1]]
        ELSE list

=============================================================================
