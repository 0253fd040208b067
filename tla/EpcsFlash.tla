----------------------------- MODULE EpcsFlash -----------------------------
(***************************************************************************)
(* The serial flash and its driver, which alt_sys_init starts:             *)
(* drivers/src/altera_avalon_epcs_flash_controller.c on top of the         *)
(* commands of epcs_commands.c.  A command is a sequence of transactions,  *)
(* each of which is one step; between any two of them the processor may be *)
(* restarted while the chip stays as it is.                                *)
(*                                                                         *)
(* A byte is the set of its bits that are 1: an erased one has them all,   *)
(* and programming clears bits.  Sizes are parameters.                     *)
(*                                                                         *)
(* Definitions named X_<fault> are faulty variants of X; nothing in the    *)
(* specification uses them.                                                *)
(***************************************************************************)
EXTENDS Integers, Sequences

CONSTANTS
  BLOCK,    \* block_size, of a sector
  BLOCKS,   \* number_of_blocks
  PAGE,     \* page_size
  CHUNK,    \* the bytes that alt_epcs_flash_memcmp reads at a time
  Bit,      \* the bits of a byte
  Write,    \* the calls of alt_write_flash: offsets and sequences of bytes
  NODEV     \* no chip that the driver knows answers

SIZE == BLOCK * BLOCKS

(* What the constants are; a module that uses this one assumes it.         *)
FlashAssumption ==
  /\ {BLOCK, BLOCKS, PAGE, CHUNK} \subseteq Nat \ {0}
  /\ BLOCK % PAGE = 0
  /\ \A w \in Write : w[1] \in Nat

VARIABLES
  mem, wip, wel, fourBytes,   \* the chip: its bytes, status bits and address mode
  large,                      \* the chip is an EPCQ256
  four_bytes_mode,            \* of the driver, or NODEV; "?" before its start
  spi,                        \* the transactions of the present command, left
  call,                       \* the call of the driver: what is to be written where
  stage,                      \* where it stands
  done,                       \* the bytes of the call that it is through with
  seen,                       \* the bytes of the block compared or programmed
  differs,                    \* alt_epcs_flash_memcmp has found a difference
  was,                        \* history: the chip's bytes when the call began
  clean                       \* history: no restart since a call last used the chip

flashVars ==
  <<mem, wip, wel, fourBytes, large, four_bytes_mode, spi, call, stage, done, seen, differs,
    was, clean>>
chipVars   == <<mem, wip, wel, fourBytes>>
driverVars == <<four_bytes_mode, call, stage, done, seen, differs>>

Address == 0 .. SIZE - 1
Block(a) == a \div BLOCK
NoCall == <<0, << >>>>

FlashInit ==
  /\ mem = [a \in Address |-> Bit]
  /\ wip = FALSE /\ wel = FALSE /\ fourBytes = FALSE
  /\ large \in BOOLEAN
  /\ four_bytes_mode = "?"
  /\ spi = << >>
  /\ call = NoCall /\ stage = "start"
  /\ done = 0 /\ seen = 0 /\ differs = FALSE
  /\ was = mem /\ clean = TRUE

-----------------------------------------------------------------------------
(* COMMANDS: the transactions of each.                                     *)

Transaction(op) == [op |-> op, four |-> FALSE, at |-> 0, bytes |-> << >>]
Addressed(op, at, bytes) == [op |-> op, four |-> four_bytes_mode, at |-> at, bytes |-> bytes]

epcs_write_enable == Transaction("wren")

(* The status register is read until the chip is ready.                    *)
epcs_await_wip_released == Transaction("rdsr")

epcs_enter_4_bytes_mode ==
  IF four_bytes_mode THEN <<epcs_write_enable, Transaction("en4b")>> ELSE << >>

epcs_exit_4_bytes_mode ==
  IF four_bytes_mode THEN <<epcs_write_enable, Transaction("dis4b")>> ELSE << >>

epcs_sector_erase(offset) ==
  epcs_enter_4_bytes_mode
    \o <<epcs_write_enable, Addressed("se", offset, << >>), epcs_await_wip_released>>
    \o epcs_exit_4_bytes_mode

epcs_read_buffer(offset, expected) ==
  epcs_enter_4_bytes_mode
    \o <<epcs_await_wip_released, Addressed("read", offset, expected)>>
    \o epcs_exit_4_bytes_mode

epcs_write_buffer_NoAwait(offset, bytes) ==
  epcs_enter_4_bytes_mode
    \o <<epcs_write_enable, Addressed("pp", offset, bytes)>>
    \o epcs_exit_4_bytes_mode

epcs_write_buffer(offset, bytes) ==
  epcs_enter_4_bytes_mode
    \o <<epcs_write_enable, Addressed("pp", offset, bytes), epcs_await_wip_released>>
    \o epcs_exit_4_bytes_mode

-----------------------------------------------------------------------------
(* THE CHIP: what it does on a transaction.  While it is busy it answers   *)
(* nothing but rdsr; an address of the wrong length is any address.        *)

Busy(t) == wip /\ t.op # "rdsr"

Programmed(at, bytes) ==
  [a \in Address |->
     IF a \div PAGE = at \div PAGE
       THEN LET i == (a - at) % PAGE IN IF i < Len(bytes) THEN mem[a] \cap bytes[i + 1] ELSE mem[a]
       ELSE mem[a]]

Erased(at) == [a \in Address |-> IF Block(a) = Block(at) THEN Bit ELSE mem[a]]

Places(t) == IF t.four = fourBytes THEN {t.at} ELSE Address

Reads(at, t) ==
  differs' = (differs \/ \E i \in DOMAIN t.bytes : mem[(at + i - 1) % SIZE] # t.bytes[i])

Chip(t) ==
  \/ /\ Busy(t) /\ t.op # "read"
     /\ UNCHANGED <<chipVars, differs>>
  \/ /\ ~Busy(t) /\ t.op = "wren"
     /\ wel' = TRUE
     /\ UNCHANGED <<mem, wip, fourBytes, differs>>
  \/ /\ ~Busy(t) /\ t.op \in {"en4b", "dis4b"}
     /\ fourBytes' = IF wel THEN t.op = "en4b" ELSE fourBytes
     /\ wel' = FALSE
     /\ UNCHANGED <<mem, wip, differs>>
  \/ /\ ~Busy(t) /\ t.op \in {"se", "pp"}
     /\ IF wel
          THEN /\ \E at \in Places(t) :
                    mem' = IF t.op = "se" THEN Erased(at) ELSE Programmed(at, t.bytes)
               /\ wip' = TRUE
          ELSE UNCHANGED <<mem, wip>>
     /\ wel' = FALSE
     /\ UNCHANGED <<fourBytes, differs>>
  \/ /\ t.op = "read"
     /\ IF Busy(t) THEN differs' = TRUE ELSE \E at \in Places(t) : Reads(at, t)
     /\ UNCHANGED chipVars
  \/ /\ t.op = "rdsr" /\ ~wip
     /\ UNCHANGED <<chipVars, differs>>

alt_avalon_spi_command ==
  /\ spi # << >>
  /\ spi' = Tail(spi)
  /\ Chip(spi[1])
  /\ UNCHANGED <<large, four_bytes_mode, call, stage, done, seen, was, clean>>

Completes ==
  /\ wip /\ wip' = FALSE
  /\ UNCHANGED <<mem, wel, fourBytes, large, spi, driverVars, was, clean>>

-----------------------------------------------------------------------------
(* THE DRIVER                                                              *)

At(s) == stage = s /\ spi = << >>

(* What the chip says it is; while it is busy it does not answer, and not  *)
(* every chip has a signature.                                             *)
epcs_read_electronic_signature == IF wip \/ large THEN "none" ELSE "EPCS64"
epcs_read_device_id            == IF wip THEN "none" ELSE IF large THEN "EPCQ256" ELSE "EPCS64"

(* Without a chip that it knows nothing is registered.                     *)
alt_epcs_flash_query ==
  /\ At("start") /\ stage' = "idle"
  /\ four_bytes_mode' = IF epcs_read_electronic_signature # "none" THEN FALSE
                        ELSE IF epcs_read_device_id = "EPCQ256" THEN TRUE
                        ELSE NODEV
  /\ UNCHANGED <<chipVars, large, spi, call, done, seen, differs, was, clean>>

Offset == call[1] + done

(* The bytes that are left in this block.                                  *)
data_to_write ==
  LET n == (Block(Offset) + 1) * BLOCK - Offset
      m == Len(call[2]) - done
  IN  IF n < m THEN n ELSE m

Bytes(from, n) == SubSeq(call[2], done + from + 1, done + from + n)

alt_epcs_flash_write(w) ==
  /\ At("idle") /\ four_bytes_mode # NODEV
  /\ call' = w
  /\ done' = 0 /\ seen' = 0 /\ differs' = FALSE
  /\ stage' = IF w[1] \in Address THEN "compare" ELSE "returns"
  /\ was' = mem
  /\ UNCHANGED <<chipVars, large, spi, four_bytes_mode, clean>>

(* A read from where the flash is.                                         *)
alt_epcs_flash_read(offset, expected) ==
  IF offset \in Address THEN epcs_read_buffer(offset, expected) ELSE << >>

(* A block that holds the bytes already is left as it is.                  *)
alt_epcs_flash_memcmp ==
  /\ At("compare")
  /\ IF differs
       THEN stage' = "erase" /\ UNCHANGED <<spi, seen>>
     ELSE IF seen = data_to_write
       THEN stage' = "next" /\ UNCHANGED <<spi, seen>>
       ELSE LET n == IF data_to_write - seen > CHUNK THEN CHUNK ELSE data_to_write - seen
            IN  /\ spi' = alt_epcs_flash_read(Offset + seen, Bytes(seen, n))
                /\ seen' = seen + n
                /\ UNCHANGED stage
  /\ UNCHANGED <<chipVars, large, four_bytes_mode, call, done, differs, was, clean>>

alt_epcs_flash_erase_block ==
  /\ At("erase") /\ stage' = "program"
  /\ spi' = epcs_sector_erase(Block(Offset) * BLOCK)
  /\ seen' = 0 /\ differs' = FALSE
  /\ UNCHANGED <<chipVars, large, four_bytes_mode, call, done, was, clean>>

PageLeft_Whole(at) == PAGE

PageLeft(at) == (at \div PAGE + 1) * PAGE - at

(* alt_epcs_flash_write_block: a page or a part of one at a time.          *)
alt_epcs_flash_write_block ==
  /\ At("program")
  /\ LET at   == Offset + seen
         left == data_to_write - seen
         n    == IF PageLeft(at) < left THEN PageLeft(at) ELSE left
     IN  IF left = 0
           THEN stage' = "next" /\ UNCHANGED <<spi, seen>>
           ELSE /\ spi' = epcs_write_buffer(at, Bytes(seen, n))
                /\ seen' = seen + n
                /\ UNCHANGED stage
  /\ UNCHANGED <<chipVars, large, four_bytes_mode, call, done, differs, was, clean>>

(* The next block, if there is one: else nothing says that bytes are left. *)
NextBlock ==
  /\ At("next")
  /\ done' = done + data_to_write
  /\ seen' = 0
  /\ stage' = IF done' = Len(call[2]) \/ call[1] + done' \notin Address
                THEN "returns" ELSE "compare"
  /\ UNCHANGED <<chipVars, large, spi, four_bytes_mode, call, differs, was, clean>>

Returns ==
  /\ At("returns") /\ stage' = "idle"
  /\ call' = NoCall /\ done' = 0
  /\ was' = mem
  /\ clean' = (clean \/ call[1] \in Address)
  /\ UNCHANGED <<chipVars, large, spi, four_bytes_mode, seen, differs>>

(* The processor starts again, and the driver with it.                     *)
Restart ==
  /\ stage' = "start" /\ spi' = << >>
  /\ four_bytes_mode' = "?"
  /\ call' = NoCall /\ done' = 0 /\ seen' = 0 /\ differs' = FALSE
  /\ was' = mem
  /\ clean' = FALSE
  /\ UNCHANGED <<chipVars, large>>

FlashNext ==
  \/ alt_epcs_flash_query
  \/ \E w \in Write : alt_epcs_flash_write(w)
  \/ alt_epcs_flash_memcmp \/ alt_epcs_flash_erase_block \/ alt_epcs_flash_write_block
  \/ NextBlock \/ Returns
  \/ alt_avalon_spi_command \/ Completes
  \/ Restart

-----------------------------------------------------------------------------
(* PROPERTIES                                                              *)

Given(a) == a - call[1] + 1 \in DOMAIN call[2]

(* A write that returns has written all of its bytes that the flash has    *)
(* room for, over pages and blocks, and found the chip in the right mode,  *)
(* even after a restart in the middle of another; the rest of a block is   *)
(* as it was or erased (altera_avalon_epcs_flash_controller.c:245-254),    *)
(* and at no time is a block touched that it does not write to, or one     *)
(* that holds the bytes already.  When nothing has been restarted, the     *)
(* chip is left ready and with 3-byte addresses (lines 144-149).           *)
FlashKeepsData ==
  /\ stage = "returns" =>
       \A a \in Address :
         \/ Given(a) /\ mem[a] = call[2][a - call[1] + 1]
         \/ ~Given(a) /\ mem[a] \in {was[a], Bit}
  /\ \A a \in Address : mem[a] # was[a] =>
       \E b \in Address : /\ Block(a) = Block(b) /\ Given(b)
                          /\ was[b] # call[2][b - call[1] + 1]
  /\ At("idle") /\ clean => ~fourBytes /\ ~wip
=============================================================================
