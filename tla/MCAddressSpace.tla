--------------------------- MODULE MCAddressSpace ---------------------------
(* The programs of user/, as user/lds/libc.lds lays them out: text of two  *)
(* pages, data, and zeroed data that the file does not load; the pages of  *)
(* rodata are left out.  The buffers end a page, cross from one stack page *)
(* to the next, run off the stack, and lie in a page of the kernel.        *)
EXTENDS AddressSpace

MCSegments ==
  <<[load |-> TRUE,  vaddr |-> Image,     memsz |-> Radix + 1, offset |-> 3,             flags |-> {R, X}],
    [load |-> FALSE, vaddr |-> Image + 2, memsz |-> 2,         offset |-> 3 + 2 * Radix, flags |-> {R, W}],
    [load |-> TRUE,  vaddr |-> Image + 3, memsz |-> 2,         offset |-> 3 + 3 * Radix, flags |-> {R, W}]>>

MCBuffers == {Image * Radix + Radix - 1, (STACK_TOP + 1) * Radix - 1, (STACK_TOP + 2) * Radix - 1,
              (Image + 3) * Radix, Frame * Radix, KernelHeap * Radix + 3}

UserSymmetry == Permutations(Users)
=============================================================================
