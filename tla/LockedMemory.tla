---------------------------- MODULE LockedMemory ----------------------------
(***************************************************************************)
(* ProtectedMemory of cloud_protection.py as address arithmetic: the pages *)
(* mlock and MADV_DONTDUMP are asked for, and the addresses that write,    *)
(* read and zeroise touch in a buffer of size bytes at addr.               *)
(***************************************************************************)
EXTENDS Integers

CONSTANT PageSize    \* SC_PAGE_SIZE

ASSUME PageAssumption == PageSize \in Nat \ {0}

\* a & ~(PageSize - 1): page sizes are powers of two.
PageDown(a) == a - (a % PageSize)
PageUp(a) == PageDown(a + PageSize - 1)

Buffer(addr, size) == addr..(addr + size - 1)

\* Mutant: the length rounded up without the buffer's offset in its page.
LockedSizeOnly(addr, size) ==
    PageDown(addr)..(PageDown(addr) + PageUp(size) - 1)

Locked(addr, size) ==
    LET pa == PageDown(addr)
        ps == PageUp(addr + size) - pa
    IN  pa..(pa + ps - 1)

\* Mutant: the offset left out of the guard.
WriteRaisesNoOffset(size, offset, len) == len > size

WriteRaises(size, offset, len) == offset + len > size

\* The addresses memmove fills; none when the guard raises.
Written(addr, size, offset, len) ==
    IF WriteRaises(size, offset, len)
    THEN {}
    ELSE (addr + offset)..(addr + offset + len - 1)

NoLength == -1     \* length=None

\* A length of 0 is false in Python and means "to the end", as None does.
ReadLength(size, offset, length) ==
    IF length \in {NoLength, 0} THEN size - offset ELSE length

\* Mutant: the array mapped from the address is handed out unsliced.
ViewedUnsliced(addr, size, offset, length) ==
    (addr + offset)..(addr + offset + offset
                        + ReadLength(size, offset, length) - 1)

\* The view maps offset + length bytes from addr + offset, then is cut to
\* length.
Viewed(addr, size, offset, length) ==
    (addr + offset)..(addr + offset + ReadLength(size, offset, length) - 1)

Zeroised(addr, size) == addr..(addr + size - 1)
=============================================================================
