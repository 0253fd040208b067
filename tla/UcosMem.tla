------------------------------- MODULE UcosMem -------------------------------
(***************************************************************************)
(* Two services of the kernel that keep a task's bytes in memory of their  *)
(* own: the fixed-size memory partitions and the names of the objects.     *)
(*                                                                         *)
(* Partitions (UCOSII/src/os_mem.c).  The first word of a free block is    *)
(* the link to the next one; the word of a block in use is its user's.     *)
(* The field OSMemFreeList of a partition's control block links the free   *)
(* control blocks, then the free blocks.  A task creates partitions in     *)
(* areas of memory of its own, puts back blocks it has got, where it got   *)
(* them, and need not put any back.                                        *)
(*                                                                         *)
(* Names (OSEventNameGet and -Set of os_core.c, OSTaskNameGet and -Set,    *)
(* OSFlagNameGet and -Set, OSMemNameGet and -Set): a buffer in the control *)
(* block, which a control block keeps through deletion and creation of the *)
(* objects it stands for.  There is one control block, of any kind.  A     *)
(* string of more than 255 characters, whose length OS_StrLen could not    *)
(* count, is nobody's name.                                                *)
(*                                                                         *)
(* A critical section is one step.  The two share nothing, and each has    *)
(* its own Init and Next.                                                  *)
(*                                                                         *)
(* Definitions named X_<fault> are faulty variants of X; nothing in the    *)
(* specification uses them.                                                *)
(***************************************************************************)
EXTENDS Naturals, FiniteSets, Sequences

CONSTANTS
  User,       \* the tasks
  Part,       \* OSMemTbl: the control blocks 1 .. OS_MAX_MEM_PART
  Area,       \* the areas of memory: sequences of blocks
  NULL,
  DATA,       \* whatever a user writes
  NAME_SIZE,  \* OS_EVENT_NAME_SIZE and its like
  String,     \* the strings given as names: sequences of characters
  NUL         \* OS_ASCII_NUL

Blocks == UNION {{area[i] : i \in DOMAIN area} : area \in Area}

Unknown == <<"?">>

(* What the constants are; a module that uses this one assumes them.       *)
MemAssumption ==
  /\ Part = 1 .. Cardinality(Part)
  /\ \A area \in Area : Len(area) >= 2   \* else OS_ERR_MEM_INVALID_BLKS
  /\ NULL \notin Blocks \cup Part /\ DATA \notin Blocks \cup {NULL}

NameAssumption ==
  /\ NAME_SIZE \in Nat /\ NAME_SIZE > Len(Unknown)
  /\ \A s \in String : \A i \in DOMAIN s : s[i] # NUL

-----------------------------------------------------------------------------
(* PARTITIONS                                                              *)

VARIABLES
  OSMemFreeList,  \* the first free control block, or NULL
  list,           \* the field OSMemFreeList of a control block
  OSMemNFree,
  OSMemNBlks,
  word,           \* block -> its first word
  area,           \* control block -> the area of its partition, or << >>
  creating,       \* user -> local to OSMemCreate: control block and area, or << >>
  held            \* user -> the blocks it has got, with their partitions

memVars == <<OSMemFreeList, list, OSMemNFree, OSMemNBlks, word, area, creating, held>>

(* OS_MemInit                                                              *)
MemInit ==
  /\ OSMemFreeList = 1
  /\ list = [p \in Part |-> IF p + 1 \in Part THEN p + 1 ELSE NULL]
  /\ OSMemNFree = [p \in Part |-> 0]
  /\ OSMemNBlks = [p \in Part |-> 0]
  /\ word = [b \in Blocks |-> DATA]
  /\ area = [p \in Part |-> << >>]
  /\ creating = [u \in User |-> << >>]
  /\ held = [u \in User |-> {}]

-----------------------------------------------------------------------------
InUse == {area[p] : p \in Part} \cup {creating[u][2] : u \in {v \in User : creating[v] # << >>}}

(* OSMemCreate takes a control block; if there is none it has failed.      *)
OSMemCreate(u, a) ==
  /\ creating[u] = << >>
  /\ a \notin InUse
  /\ OSMemFreeList # NULL
  /\ OSMemFreeList' = list[OSMemFreeList]
  /\ creating' = [creating EXCEPT ![u] = <<OSMemFreeList, a>>]
  /\ UNCHANGED <<list, OSMemNFree, OSMemNBlks, word, area, held>>

Chained_NoEnd(a) ==
  [b \in Blocks |->
     IF \E i \in 1 .. Len(a) - 1 : a[i] = b
       THEN a[(CHOOSE i \in DOMAIN a : a[i] = b) + 1]
       ELSE word[b]]

(* The blocks of an area as a list, from the first to the last.            *)
Chained(a) ==
  [b \in Blocks |->
     IF \E i \in DOMAIN a : a[i] = b
       THEN LET i == CHOOSE j \in DOMAIN a : a[j] = b
            IN  IF i < Len(a) THEN a[i + 1] ELSE NULL
       ELSE word[b]]

(* With interrupts on, OSMemCreate fills memory that nobody else knows.    *)
MemCreated(u) ==
  /\ creating[u] # << >>
  /\ LET p == creating[u][1]
         a == creating[u][2]
     IN  /\ word' = Chained(a)
         /\ list' = [list EXCEPT ![p] = a[1]]
         /\ OSMemNFree' = [OSMemNFree EXCEPT ![p] = Len(a)]
         /\ OSMemNBlks' = [OSMemNBlks EXCEPT ![p] = Len(a)]
         /\ area' = [area EXCEPT ![p] = a]
  /\ creating' = [creating EXCEPT ![u] = << >>]
  /\ UNCHANGED <<OSMemFreeList, held>>

(* OSMemGet: the first free block; none is an error that changes nothing.  *)
OSMemGet(u, p) ==
  /\ area[p] # << >>
  /\ OSMemNFree[p] > 0
  /\ held' = [held EXCEPT ![u] = @ \cup {<<list[p], p>>}]
  /\ list' = [list EXCEPT ![p] = word[list[p]]]
  /\ OSMemNFree' = [OSMemNFree EXCEPT ![p] = @ - 1]
  /\ UNCHANGED <<OSMemFreeList, OSMemNBlks, word, area, creating>>

OSMemPut_Swapped(u, b, p) ==
  /\ <<b, p>> \in held[u]
  /\ OSMemNFree[p] < OSMemNBlks[p]
  /\ list' = [list EXCEPT ![p] = b]
  /\ word' = [word EXCEPT ![b] = list'[p]]
  /\ OSMemNFree' = [OSMemNFree EXCEPT ![p] = @ + 1]
  /\ held' = [held EXCEPT ![u] = @ \ {<<b, p>>}]
  /\ UNCHANGED <<OSMemFreeList, OSMemNBlks, area, creating>>

(* OSMemPut: the block is the first to be given out again.                 *)
OSMemPut(u, b, p) ==
  /\ <<b, p>> \in held[u]
  /\ OSMemNFree[p] < OSMemNBlks[p]
  /\ word' = [word EXCEPT ![b] = list[p]]
  /\ list' = [list EXCEPT ![p] = b]
  /\ OSMemNFree' = [OSMemNFree EXCEPT ![p] = @ + 1]
  /\ held' = [held EXCEPT ![u] = @ \ {<<b, p>>}]
  /\ UNCHANGED <<OSMemFreeList, OSMemNBlks, area, creating>>

(* A user writes to its block.                                             *)
Use(u) ==
  /\ \E h \in held[u] : word[h[1]] # DATA /\ word' = [word EXCEPT ![h[1]] = DATA]
  /\ UNCHANGED <<OSMemFreeList, list, OSMemNFree, OSMemNBlks, area, creating, held>>

MemNext ==
  \E u \in User :
    \/ \E a \in Area : OSMemCreate(u, a)
    \/ MemCreated(u)
    \/ \E p \in Part : OSMemGet(u, p)
    \/ \E b \in Blocks, p \in Part : OSMemPut(u, b, p)
    \/ Use(u)

-----------------------------------------------------------------------------
(* NAMES                                                                   *)

VARIABLES
  kind,     \* what the control block is for
  made,     \* it stands for an object
  buffer,   \* the buffer of its name
  overrun,  \* a character has been written beyond it
  call,     \* user -> the call it is in, and the name it gives
  got,      \* user -> the buffer it has had a name copied to
  given,    \* history: the names that have been set since the object was made
  was       \* history: user -> the name there was when it was copied

nameVars == <<kind, made, buffer, overrun, call, got, given, was>>

Index == 0 .. NAME_SIZE - 1

(* OS_StrLen and OS_StrCopy read up to the NUL: the string s.              *)
Holds(buf, s) ==
  /\ Len(s) \in Index /\ buf[Len(s)] = NUL
  /\ \A i \in DOMAIN s : buf[i - 1] = s[i]

OS_StrCopy_NoNul(buf, s) == [i \in Index |-> IF i < Len(s) THEN s[i + 1] ELSE buf[i]]

OS_StrCopy(buf, s) ==
  [i \in Index |-> IF i < Len(s) THEN s[i + 1] ELSE IF i = Len(s) THEN NUL ELSE buf[i]]

OS_MemClr == [i \in Index |-> NUL]

NoCall == <<"none", << >>>>

(* OS_InitEventList and its like.                                          *)
NamesInit ==
  /\ kind \in {"event", "flag", "task", "partition"}
  /\ made = FALSE
  /\ buffer = OS_StrCopy(OS_MemClr, Unknown)
  /\ overrun = FALSE
  /\ call = [t \in User |-> NoCall]
  /\ got = [t \in User |-> OS_MemClr]
  /\ given = {}
  /\ was = [t \in User |-> << >>]

Create_KeepsName ==
  /\ ~made /\ made' = TRUE
  /\ given' = {Unknown}
  /\ UNCHANGED <<kind, buffer, overrun, call, got, was>>

(* OSSemCreate and the others; OSMemCreate leaves the name as OSInit set it.*)
Create ==
  /\ ~made /\ made' = TRUE
  /\ buffer' = IF kind = "partition" THEN buffer ELSE OS_StrCopy(buffer, Unknown)
  /\ given' = {Unknown}
  /\ UNCHANGED <<kind, overrun, call, got, was>>

(* OSSemDel and the others; there is no way to delete a partition.         *)
Delete ==
  /\ made /\ made' = FALSE
  /\ kind # "partition"
  /\ buffer' = OS_StrCopy(buffer, Unknown)
  /\ given' = {}
  /\ UNCHANGED <<kind, overrun, call, got, was>>

(* A task calls a service.  OSEventNameSet and -Get look at the type here, *)
(* before the critical section; a partition is known once it is made.      *)
Begin(t, op, s) ==
  /\ call[t] = NoCall
  /\ kind \in {"event", "partition"} => made
  /\ call' = [call EXCEPT ![t] = <<op, s>>]
  /\ UNCHANGED <<kind, made, buffer, overrun, got, given, was>>

(* The critical section: nothing happens if there is no such flag group or *)
(* task, or if the name is too long.                                       *)
Found == kind \in {"flag", "task"} => made

TooLong_Exactly(s) == Len(s) > NAME_SIZE

TooLong(s) == Len(s) > NAME_SIZE - 1

SetName(t) ==
  LET s == call[t][2]
  IN  /\ call[t][1] = "set"
      /\ IF Found /\ ~TooLong(s)
           THEN /\ buffer' = OS_StrCopy(buffer, s)
                /\ overrun' = (overrun \/ Len(s) \notin Index)
                /\ given' = given \cup {s}
           ELSE UNCHANGED <<buffer, overrun, given>>
      /\ call' = [call EXCEPT ![t] = NoCall]
      /\ UNCHANGED <<kind, made, got, was>>

GetName(t) ==
  /\ call[t][1] = "get"
  /\ IF Found
       THEN \E s \in String \cup {Unknown} :
              /\ Holds(buffer, s)
              /\ got' = [got EXCEPT ![t] = OS_StrCopy(@, s)]
              /\ was' = [was EXCEPT ![t] = s]
       ELSE UNCHANGED <<got, was>>
  /\ call' = [call EXCEPT ![t] = NoCall]
  /\ UNCHANGED <<kind, made, buffer, overrun, given>>

OSEventNameSet(t) == kind = "event" /\ ((\E s \in String : Begin(t, "set", s)) \/ SetName(t))
OSEventNameGet(t) == kind = "event" /\ (Begin(t, "get", << >>) \/ GetName(t))
OSTaskNameSet(t)  == kind = "task" /\ ((\E s \in String : Begin(t, "set", s)) \/ SetName(t))
OSTaskNameGet(t)  == kind = "task" /\ (Begin(t, "get", << >>) \/ GetName(t))
OSFlagNameSet(t)  == kind = "flag" /\ ((\E s \in String : Begin(t, "set", s)) \/ SetName(t))
OSFlagNameGet(t)  == kind = "flag" /\ (Begin(t, "get", << >>) \/ GetName(t))
OSMemNameSet(t)   == kind = "partition" /\ ((\E s \in String : Begin(t, "set", s)) \/ SetName(t))
OSMemNameGet(t)   == kind = "partition" /\ (Begin(t, "get", << >>) \/ GetName(t))

NamesNext ==
  \/ Create
  \/ Delete
  \/ \E t \in User :
       \/ OSEventNameSet(t) \/ OSEventNameGet(t)
       \/ OSTaskNameSet(t)  \/ OSTaskNameGet(t)
       \/ OSFlagNameSet(t)  \/ OSFlagNameGet(t)
       \/ OSMemNameSet(t)   \/ OSMemNameGet(t)

-----------------------------------------------------------------------------
(* PROPERTIES                                                              *)

(* The n blocks or control blocks that a list starts with.                 *)
Walk(first, next, n) ==
  LET step[i \in 1 .. n] == IF i = 1 THEN first ELSE next[step[i - 1]]
  IN  step

(* OSMemQuery: the blocks in use, by the partition's numbers.              *)
OSNUsed(p) == OSMemNBlks[p] - OSMemNFree[p]

(* Nobody has a block that is free or another's, no block is lost, and     *)
(* OSMemQuery counts them right: the free list of a partition is exactly   *)
(* its blocks that nobody holds, each once, however the users' data look   *)
(* (os_mem.c:158-161, 326-332); and a control block has one partition.     *)
PartitionsExact ==
  /\ \A p \in Part : area[p] # << >> =>
       LET free == Walk(list[p], word, OSMemNFree[p])
           used == {b \in Blocks : \E u \in User : <<b, p>> \in held[u]}
       IN  /\ {free[i] : i \in DOMAIN free} = {area[p][i] : i \in DOMAIN area[p]} \ used
           /\ OSMemNFree[p] + Cardinality(used) = Len(area[p])
           /\ OSNUsed(p) = Cardinality(used)
           /\ IF OSMemNFree[p] = 0 THEN list[p] = NULL ELSE word[free[OSMemNFree[p]]] = NULL
  /\ \A u, v \in User : u # v => held[u] \cap held[v] = {}
  /\ LET taken == {p \in Part : area[p] # << >>}
                   \cup {creating[u][1] : u \in {v \in User : creating[v] # << >>}}
         n     == Cardinality(Part \ taken)
         free  == Walk(OSMemFreeList, list, n)
     IN  {free[i] : i \in DOMAIN free} = Part \ taken

(* An object bears no other object's name: its buffer holds, whole, a name *)
(* set since it was made, or the unknown one, even when a task that found  *)
(* an event in place sets the name after its deletion (os_core.c:209-227); *)
(* only a deleted event may be called something; and a task is given the   *)
(* whole name there was.                                                   *)
NamesAreOwn ==
  /\ ~overrun
  /\ made => \E s \in given : Holds(buffer, s)
  /\ ~made /\ kind # "event" => Holds(buffer, Unknown)
  /\ \A t \in User : was[t] # << >> => Holds(got[t], was[t])
=============================================================================
