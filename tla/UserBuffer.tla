----------------------------- MODULE UserBuffer -----------------------------
(***************************************************************************)
(* How a buffer of a user program is cut into slices that lie in one page  *)
(* (os/src/mm/page_table.rs).                                              *)
(***************************************************************************)
EXTENDS Integers, Sequences, FiniteSetsExt

CONSTANT PAGE_SIZE    \* bytes in a page

ASSUME PageAssumption == PAGE_SIZE \in Nat \ {0}

page_offset(va) == va % PAGE_SIZE
floor(va) == va \div PAGE_SIZE

translated_byte_buffer_empty_tail(ptr, len) ==
    LET end == ptr + len
        from[start \in Nat] ==
            LET vpn == floor(start)
                end_va == Min({(vpn + 1) * PAGE_SIZE, end})
                s == [vpn |-> vpn, from |-> page_offset(start), to |-> page_offset(end_va)]
            IN  IF start < end THEN <<s>> \o from[end_va] ELSE <<>>
    IN  from[ptr]

\* The slices of the pages under a user buffer: bytes from..to-1 of page vpn.  A
\* slice that ends with its page has end offset 0, which stands for the whole rest.
translated_byte_buffer(ptr, len) ==
    LET end == ptr + len
        from[start \in Nat] ==
            LET vpn == floor(start)
                end_va == Min({(vpn + 1) * PAGE_SIZE, end})
                s == [vpn |-> vpn, from |-> page_offset(start),
                      to |-> IF page_offset(end_va) = 0 THEN PAGE_SIZE ELSE page_offset(end_va)]
            IN  IF start < end THEN <<s>> \o from[end_va] ELSE <<>>
    IN  from[ptr]

SliceLen(s) == s.to - s.from

\* UserBuffer::len.
BufferLen(slices) == MapThenSumSet(LAMBDA n : SliceLen(slices[n]), DOMAIN slices)

\* Bytes copied to the start of a slice, each with the address where it goes.
Placed(s, bytes) == [k \in DOMAIN bytes |-> << <<s.vpn, s.from + k - 1>>, bytes[k]>>]
=============================================================================
