---------------------------- MODULE TerasicFlash ----------------------------
(***************************************************************************)
(* The flash functions of terasic_lib/flash.c, which the application is    *)
(* linked with, above the flash interface of the HAL (EpcsFlash has the    *)
(* driver).  FLASH_Verify erases the flash, writes a running count in      *)
(* pieces of at most nBufSize bytes, reads it back and compares; Flash_    *)
(* Write may be called for any part.  A cell may be worn out: one of its   *)
(* bits keeps its value.                                                   *)
(*                                                                         *)
(* A byte is the set of its bits that are 1, as in EpcsFlash.              *)
(*                                                                         *)
(* Definitions named X_<fault> are faulty variants of X; nothing in the    *)
(* specification uses them.                                                *)
(***************************************************************************)
EXTENDS Integers, Sequences

CONSTANTS
  Layout,    \* the flashes: sequences of regions <<number_of_blocks, block_size>>
  Bit,       \* 0 .. n, the bits of a byte
  U8, U32,   \* alt_u8 and alt_u32 are numbers modulo these
  nBufSize,
  NONE       \* no cell is worn out

(* What the constants are; a module that uses this one assumes it.         *)
TerasicAssumption ==
  /\ nBufSize \in Nat \ {0}
  /\ \A l \in Layout : l # << >> /\ \A i \in DOMAIN l : l[i][1] > 0 /\ l[i][2] > 0
  /\ \A b \in Bit : b \in Nat

VARIABLES
  regions_flash,   \* of the flash
  mem,             \* its bytes
  worn,            \* <<cell, bit, value>> or NONE
  bQuickVerify, InitValue,   \* arguments of FLASH_Verify
  stage,           \* of FLASH_Verify, or where the program stands
  i, sum, Cnt,     \* its locals: the block, the bytes done of it, the count
  hFlash, pBuf,    \* is the flash open; has the buffer been allocated
  bPass,
  request,         \* the last call of Flash_Write by itself: <<offset, size>>
  was              \* history: the bytes when the call began

terasicVars ==
  <<regions_flash, mem, worn, bQuickVerify, InitValue, stage, i, sum, Cnt, hFlash, pBuf, bPass,
    request, was>>
flash == <<regions_flash, worn>>
args  == <<bQuickVerify, InitValue, request>>

(* The byte for a count.                                                   *)
Byte(n) == {b \in Bit : (n \div 2^b) % 2 = 1}

-----------------------------------------------------------------------------
(* THE BLOCKS                                                              *)

(* How many blocks the first r regions have.                               *)
BlocksUpTo(r) ==
  LET n[k \in 0 .. r] == IF k = 0 THEN 0 ELSE n[k - 1] + regions_flash[k][1] IN n[r]

Flash_GetBlockCount == BlocksUpTo(Len(regions_flash))

BlockIndex == 0 .. Flash_GetBlockCount - 1

Size(k) ==
  LET r == CHOOSE r \in DOMAIN regions_flash : BlocksUpTo(r - 1) <= k /\ k < BlocksUpTo(r)
  IN  regions_flash[r][2]

(* Where block k starts.                                                   *)
Flash_GetBlockInfo(k) ==
  LET offset[m \in 0 .. k] == IF m = 0 THEN 0 ELSE offset[m - 1] + Size(m - 1) IN offset[k]

Flash_Size ==
  LET size[r \in 0 .. Len(regions_flash)] ==
        IF r = 0 THEN 0 ELSE size[r - 1] + regions_flash[r][1] * regions_flash[r][2]
  IN  size[Len(regions_flash)]

Address == 0 .. Flash_Size - 1

-----------------------------------------------------------------------------
(* THE FLASH                                                               *)

(* What the cells hold that are to hold m.                                 *)
Cells(m) ==
  [a \in DOMAIN m |->
     IF worn = NONE THEN m[a]
     ELSE IF worn[1] # a THEN m[a]
     ELSE IF worn[3] = 1 THEN m[a] \cup {worn[2]} ELSE m[a] \ {worn[2]}]

(* Programming clears bits.                                                *)
Program(offset, n, byte) ==
  mem' = Cells([a \in Address |->
           IF a \in offset .. offset + n - 1 THEN mem[a] \cap byte[a - offset] ELSE mem[a]])

Flash_Erase(k) ==
  LET offset == Flash_GetBlockInfo(k)
  IN  mem' = Cells([a \in Address |->
               IF a \in offset .. offset + Size(k) - 1 THEN Bit ELSE mem[a]])

(* What Flash_Write writes when it comes to block k, count bytes being     *)
(* done.  In the first piece the room up to the end of the block is an     *)
(* unsigned difference: when the block ends before offset it is huge.      *)
Piece(offset, size, k, count) ==
  LET left == size - count
      room == (Flash_GetBlockInfo(k) + Size(k) + U32 - offset) % U32
  IN  IF count = 0 THEN IF left > room THEN room ELSE left
                   ELSE IF left > Size(k) THEN Size(k) ELSE left

(* It goes through all the blocks; those that end before offset are not    *)
(* left out.  The pieces follow each other in the flash.                   *)
WriteCount(offset, size) ==
  LET count[k \in 0 .. Flash_GetBlockCount] ==
        IF k = 0 THEN 0
        ELSE LET n == count[k - 1]
             IN  IF offset + n >= Flash_GetBlockInfo(k - 1) /\ n < size
                   THEN n + Piece(offset, size, k - 1, n)
                   ELSE n
  IN  count[Flash_GetBlockCount]

Flash_Write(offset, size, byte) == Program(offset, WriteCount(offset, size), byte)

-----------------------------------------------------------------------------
TerasicInit ==
  /\ regions_flash \in Layout
  /\ worn \in {NONE} \cup (Address \X Bit \X {0, 1})
  /\ \E byte \in {{}, Bit} : mem = Cells([a \in Address |-> byte])
  /\ bQuickVerify = FALSE /\ InitValue = 0 /\ stage = "idle"
  /\ i = 0 /\ sum = 0 /\ Cnt = 0
  /\ hFlash = FALSE /\ pBuf = FALSE /\ bPass = TRUE
  /\ request = <<0, 0>>
  /\ was = mem

(* A call of Flash_Write by itself.                                        *)
WriteCall ==
  /\ stage = "idle" /\ stage' = "wrote"
  /\ \E offset, last \in Address :
       /\ offset <= last
       /\ request' = <<offset, last - offset + 1>>
       /\ Flash_Write(offset, last - offset + 1, [n \in 0 .. last - offset |-> Byte(n)])
  /\ UNCHANGED <<flash, bQuickVerify, InitValue, i, sum, Cnt, hFlash, pBuf, bPass, was>>

(* Flash_Open: the driver may not have found the chip.                     *)
Flash_Open ==
  /\ stage = "idle"
  /\ bQuickVerify' \in BOOLEAN
  /\ InitValue' \in 0 .. U8 - 1 /\ Cnt' = InitValue'
  /\ \/ hFlash' = TRUE /\ stage' = "alloc" /\ UNCHANGED bPass
     \/ hFlash' = FALSE /\ stage' = "returned" /\ bPass' = FALSE
  /\ UNCHANGED <<flash, mem, i, sum, pBuf, request, was>>

(* The buffer is allocated; without it the flash is left open.             *)
Alloc ==
  /\ stage = "alloc"
  /\ \/ pBuf' = TRUE /\ stage' = "erase" /\ UNCHANGED bPass
     \/ pBuf' = FALSE /\ stage' = "returned" /\ bPass' = FALSE
  /\ UNCHANGED <<flash, mem, args, i, sum, Cnt, hFlash, was>>

(* A quick verification takes the first block and the last.                *)
Skipped(k) == bQuickVerify /\ k # 0 /\ k # Flash_GetBlockCount - 1

NextOf(k, next) ==
  IF k + 1 \in BlockIndex
    THEN i' = k + 1 /\ UNCHANGED stage
    ELSE i' = 0 /\ stage' = next

(* The blocks between, in each of the three passes.                        *)
Skip(s, next) ==
  /\ stage = s /\ Skipped(i)
  /\ NextOf(i, next)
  /\ UNCHANGED <<flash, mem, args, sum, Cnt, hFlash, pBuf, bPass, was>>

EraseBlock ==
  /\ stage = "erase" /\ ~Skipped(i)
  /\ Flash_Erase(i)
  /\ NextOf(i, "write")
  /\ UNCHANGED <<flash, args, sum, Cnt, hFlash, pBuf, bPass, was>>

PieceSize_Buffer == nBufSize

PieceSize == IF nBufSize > Size(i) - sum THEN Size(i) - sum ELSE nBufSize

At == Flash_GetBlockInfo(i) + sum

(* After the last piece of a block the next block, if there is one; before *)
(* it is read the count is what it was at first.                           *)
NextPiece(next, count) ==
  IF sum + PieceSize < Size(i)
    THEN sum' = sum + PieceSize /\ Cnt' = count /\ UNCHANGED <<i, stage>>
    ELSE /\ sum' = 0
         /\ NextOf(i, next)
         /\ Cnt' = IF i' = 0 THEN InitValue ELSE count

Counted(n) == [m \in 0 .. n - 1 |-> Byte((Cnt + m) % U8)]

WritePiece ==
  /\ stage = "write" /\ ~Skipped(i)
  /\ Flash_Write(At, PieceSize, Counted(PieceSize))
  /\ NextPiece("read", (Cnt + PieceSize) % U8)
  /\ UNCHANGED <<flash, args, hFlash, pBuf, bPass, was>>

ReadPiece ==
  /\ stage = "read" /\ ~Skipped(i)
  /\ IF \A m \in 0 .. PieceSize - 1 : mem[At + m] = Counted(PieceSize)[m]
       THEN NextPiece("close", (Cnt + PieceSize) % U8) /\ UNCHANGED bPass
       ELSE bPass' = FALSE /\ stage' = "close" /\ UNCHANGED <<i, sum, Cnt>>
  /\ UNCHANGED <<flash, mem, args, hFlash, pBuf, was>>

Flash_Close ==
  /\ stage = "close" /\ stage' = "returned"
  /\ hFlash' = FALSE /\ pBuf' = FALSE
  /\ UNCHANGED <<flash, mem, args, i, sum, Cnt, bPass, was>>

(* Bound: every call finds the same bytes, all erased or all programmed.   *)
Again ==
  /\ stage \in {"wrote", "returned"} /\ stage' = "idle"
  /\ mem' = was
  /\ i' = 0 /\ sum' = 0 /\ Cnt' = 0 /\ hFlash' = FALSE /\ pBuf' = FALSE /\ bPass' = TRUE
  /\ request' = <<0, 0>> /\ bQuickVerify' = FALSE /\ InitValue' = 0
  /\ UNCHANGED <<flash, was>>

TerasicNext ==
  \/ WriteCall
  \/ Flash_Open \/ Alloc
  \/ Skip("erase", "write") \/ EraseBlock
  \/ Skip("write", "read") \/ WritePiece
  \/ Skip("read", "close") \/ ReadPiece
  \/ Flash_Close \/ Again

-----------------------------------------------------------------------------
(* PROPERTIES                                                              *)

Of(k) == Flash_GetBlockInfo(k) .. Flash_GetBlockInfo(k) + Size(k) - 1

Checked == {k \in BlockIndex : ~Skipped(k)}

(* The bytes of the blocks before k that are checked.                      *)
Before(k) == IF bQuickVerify /\ k > 0 THEN Size(0) ELSE Flash_GetBlockInfo(k)

(* Flash_Write writes just the bytes that it is asked to, once, wherever   *)
(* they are, though the room of its first piece wraps around               *)
(* (flash.c:199-200); a verification succeeds on every flash without worn  *)
(* cells, and with them only when all the bytes checked hold what was      *)
(* written; a quick one (line 286) does not touch the blocks between; and  *)
(* the flash is closed unless there was no memory for the buffer.          *)
FlashTestTells ==
  /\ stage = "wrote" =>
       mem = Cells([a \in Address |->
               IF a \in request[1] .. request[1] + request[2] - 1
                 THEN was[a] \cap Byte(a - request[1]) ELSE was[a]])
  /\ stage = "returned" =>
       /\ bPass => \A k \in Checked : \A a \in Of(k) :
                     mem[a] = Byte((InitValue + Before(k) + a - Flash_GetBlockInfo(k)) % U8)
       /\ bPass \/ mem = was \/ (worn # NONE /\ \E k \in Checked : worn[1] \in Of(k))
       /\ hFlash => mem = was
  /\ stage # "wrote" => \A k \in BlockIndex \ Checked : \A a \in Of(k) : mem[a] = was[a]
  /\ UNION {Of(k) : k \in BlockIndex} = Address
=============================================================================
