------------------------------ MODULE HalFiles ------------------------------
(***************************************************************************)
(* The file descriptors of the HAL: open, close, ioctl, fcntl and the      *)
(* accesses (HAL/src/alt_open.c and its neighbours).  At start-up          *)
(* alt_main's alt_io_redirect takes descriptors 1, 0 and 2 to the JTAG     *)
(* UART; then tasks open, use and close the others, and may be interrupted *)
(* by each other between any two accesses to the table.                    *)
(*                                                                         *)
(* alt_fd_list_lock is held while alt_get_fd and alt_fd_lock look through  *)
(* the table, but not by open's own search nor by alt_release_fd.          *)
(*                                                                         *)
(* Definitions named X_<fault> are faulty variants of X; nothing in the    *)
(* specification uses them.                                                *)
(***************************************************************************)
EXTENDS Integers, FiniteSets, SequencesExt

CONSTANTS
  Opener,       \* the tasks that open descriptors
  ALT_MAX_FD,
  Dev, FS,      \* the devices, and the file systems, that are registered:
                \* each is its name, a sequence of the parts between "/"
  JTAG,         \* "/dev/jtag_uart"; if it is not in Dev it is not registered
  DEV_NULL,     \* alt_dev_null, which is always registered
  NULL,
  Name,         \* the names that are opened, ...
  Mode          \* ... and in which modes

Std  == 0 .. 2
Fd   == 0 .. ALT_MAX_FD - 1

(* What the constants are; a module that uses this one assumes it.         *)
FileAssumption ==
  /\ ALT_MAX_FD \in Nat /\ ALT_MAX_FD > 3
  /\ NULL \notin {DEV_NULL} \cup Dev \cup FS /\ (Dev \cup {DEV_NULL}) \cap FS = {}
  /\ Mode \subseteq {"O_RDONLY", "O_WRONLY", "O_RDWR"}

VARIABLES
  dev,         \* descriptor -> its device, or NULL when it is free
  flags,       \* descriptor -> fd_flags
  alt_max_fd,  \* the greatest descriptor ever used
  lock,        \* who holds alt_fd_list_lock, or NULL
  boot,        \* the descriptors that alt_io_redirect has not come to
  pc,          \* where a task stands; "task" is its own code
  want,        \* local: the device and the mode it opens
  fd,          \* local: the descriptor the call is about
  i,           \* local: the index of a search
  own,         \* history: task -> descriptor -> what it was opened for
  unseen       \* history: the pairs of a descriptor that was given its device to itself
               \* and the last one, which was open for that device, too

fileVars == <<dev, flags, alt_max_fd, lock, boot, pc, want, fd, i, own, unseen>>

(* The access mode, ALT_FD_DEV, ALT_FD_EXCL and O_NONBLOCK.                *)
Flags(mode, isDev, excl, nonblock) ==
  [mode |-> mode, dev |-> isDev, excl |-> excl, nonblock |-> nonblock]

None == Flags("O_RDONLY", FALSE, FALSE, FALSE)

NotOpen == <<NULL, "O_RDONLY">>

Init ==
  /\ dev = [f \in Fd |-> IF f \in Std THEN DEV_NULL ELSE NULL]
  /\ flags = [f \in Fd |-> None]
  /\ alt_max_fd = -1
  /\ lock = NULL
  /\ boot = Std
  /\ pc = [t \in Opener |-> "task"]
  /\ want = [t \in Opener |-> NotOpen]
  /\ fd = [t \in Opener |-> 0]
  /\ i = [t \in Opener |-> 0]
  /\ own = [t \in Opener |-> [f \in Fd |-> NotOpen]]
  /\ unseen = {}

-----------------------------------------------------------------------------
(* alt_open_fd, with nobody else about: open finds descriptor 3, which is  *)
(* copied and released.  Without the device the descriptor stays as it is. *)
RedirectMode(f) == IF f = 0 THEN "O_RDONLY" ELSE "O_WRONLY"

alt_io_redirect(f) ==
  /\ f \in boot
  /\ f = 0 => 1 \notin boot
  /\ f = 2 => 0 \notin boot
  /\ boot' = boot \ {f}
  /\ IF JTAG \in Dev
       THEN /\ dev' = [dev EXCEPT ![f] = JTAG]
            /\ flags' = [flags EXCEPT ![f] = Flags(RedirectMode(f), TRUE, FALSE, FALSE)]
            /\ alt_max_fd' = 3
       ELSE UNCHANGED <<dev, flags, alt_max_fd>>
  /\ UNCHANGED <<lock, pc, want, fd, i, own, unseen>>

-----------------------------------------------------------------------------
(* open: a device has exactly its name, a file system every name below its *)
(* own (a name of neither changes nothing: -ENODEV), and alt_get_fd waits  *)
(* for the lock.                                                           *)
alt_find_dev(name) == IF name \in Dev \cup {DEV_NULL} THEN name ELSE NULL

alt_find_file(name) ==
  IF \E fs \in FS : IsPrefix(fs, name) THEN CHOOSE fs \in FS : IsPrefix(fs, name) ELSE NULL

ALT_OPEN(t, name, m) ==
  /\ boot = {}
  /\ pc[t] = "task"
  /\ LET d == IF alt_find_dev(name) # NULL THEN alt_find_dev(name) ELSE alt_find_file(name)
     IN  d # NULL /\ want' = [want EXCEPT ![t] = <<d, m>>]
  /\ pc' = [pc EXCEPT ![t] = "get"]
  /\ UNCHANGED <<dev, flags, alt_max_fd, lock, boot, fd, i, own, unseen>>

(* The first three descriptors are never free, nor a device's only ones:   *)
(* open's searches pass them over.                                         *)
FirstFree == 3

Pend(t, from, to) ==
  /\ pc[t] = from /\ pc' = [pc EXCEPT ![t] = to]
  /\ lock = NULL /\ lock' = t

GetLocked(t) ==
  /\ Pend(t, "get", "scan")
  /\ i' = [i EXCEPT ![t] = FirstFree]
  /\ UNCHANGED <<dev, flags, alt_max_fd, boot, want, fd, own, unseen>>

(* alt_get_fd: the first free descriptor, or -EMFILE.                      *)
alt_get_fd(t) ==
  /\ pc[t] = "scan"
  /\ \/ /\ i[t] = ALT_MAX_FD
        /\ pc' = [pc EXCEPT ![t] = "task"]
        /\ want' = [want EXCEPT ![t] = NotOpen]
        /\ i' = [i EXCEPT ![t] = 0]
        /\ lock' = NULL
        /\ UNCHANGED <<dev, alt_max_fd, fd>>
     \/ /\ i[t] < ALT_MAX_FD /\ dev[i[t]] = NULL
        /\ dev' = [dev EXCEPT ![i[t]] = want[t][1]]
        /\ alt_max_fd' = IF i[t] > alt_max_fd THEN i[t] ELSE alt_max_fd
        /\ fd' = [fd EXCEPT ![t] = i[t]]
        /\ pc' = [pc EXCEPT ![t] = "flags"]
        /\ i' = [i EXCEPT ![t] = 0]
        /\ lock' = NULL
        /\ UNCHANGED want
     \/ /\ i[t] < ALT_MAX_FD /\ dev[i[t]] # NULL
        /\ i' = [i EXCEPT ![t] = @ + 1]
        /\ UNCHANGED <<dev, alt_max_fd, lock, pc, want, fd>>
  /\ UNCHANGED <<flags, boot, own, unseen>>

(* open sets the flags; of a device alt_file_locked sets ALT_FD_DEV ...    *)
OpenFlags(t) ==
  /\ pc[t] = "flags"
  /\ flags' = [flags EXCEPT ![fd[t]] = Flags(want[t][2], FALSE, FALSE, FALSE)]
  /\ pc' = [pc EXCEPT ![t] = IF want[t][1] \in FS THEN "callback" ELSE "mark"]
  /\ UNCHANGED <<dev, alt_max_fd, lock, boot, want, fd, i, own, unseen>>

alt_file_locked(t) ==
  /\ pc[t] = "mark"
  /\ flags' = [flags EXCEPT ![fd[t]].dev = TRUE]
  /\ pc' = [pc EXCEPT ![t] = "look"]
  /\ i' = [i EXCEPT ![t] = FirstFree]
  /\ UNCHANGED <<dev, alt_max_fd, lock, boot, want, fd, own, unseen>>

LookForExcl_ItselfToo(t) ==
  /\ pc[t] = "look"
  /\ pc' = [pc EXCEPT ![t] = "callback"] /\ i' = [i EXCEPT ![t] = 0]
  /\ UNCHANGED <<dev, flags, alt_max_fd, lock, boot, want, fd, own, unseen>>

(* ... and looks for a descriptor that has the device to itself.           *)
LookForExcl(t) ==
  /\ pc[t] = "look"
  /\ IF i[t] > alt_max_fd
       THEN pc' = [pc EXCEPT ![t] = "callback"] /\ i' = [i EXCEPT ![t] = 0]
     ELSE IF dev[i[t]] = dev[fd[t]] /\ flags[i[t]].excl /\ i[t] # fd[t]
       THEN pc' = [pc EXCEPT ![t] = "release"] /\ i' = [i EXCEPT ![t] = 0]
       ELSE i' = [i EXCEPT ![t] = @ + 1] /\ UNCHANGED pc
  /\ UNCHANGED <<dev, flags, alt_max_fd, lock, boot, want, fd, own, unseen>>

(* The device's open; those of this system have none, a file system's may  *)
(* fail.                                                                   *)
OpenCallback(t) ==
  /\ pc[t] = "callback"
  /\ \/ /\ own' = [own EXCEPT ![t][fd[t]] = want[t]]
        /\ want' = [want EXCEPT ![t] = NotOpen]
        /\ pc' = [pc EXCEPT ![t] = "task"]
        /\ fd' = [fd EXCEPT ![t] = 0]
     \/ /\ want[t][1] \in FS
        /\ pc' = [pc EXCEPT ![t] = "release"]
        /\ UNCHANGED <<own, want, fd>>
  /\ UNCHANGED <<dev, flags, alt_max_fd, lock, boot, i, unseen>>

-----------------------------------------------------------------------------
(* close: the device's close, then alt_release_fd, which does nothing to   *)
(* the first three descriptors.                                            *)
ALT_CLOSE(t, f) ==
  /\ pc[t] = "task"
  /\ own[t][f] # NotOpen
  /\ own' = [own EXCEPT ![t][f] = NotOpen]
  /\ fd' = [fd EXCEPT ![t] = f]
  /\ pc' = [pc EXCEPT ![t] = "release"]
  /\ UNCHANGED <<dev, flags, alt_max_fd, lock, boot, want, i, unseen>>

ReleaseFlags_DevFirst(t) ==
  /\ pc[t] = "release"
  /\ dev' = [dev EXCEPT ![fd[t]] = NULL]
  /\ pc' = [pc EXCEPT ![t] = "free"]
  /\ UNCHANGED <<flags, alt_max_fd, lock, boot, want, fd, i, own, unseen>>

ReleaseFlags(t) ==
  /\ pc[t] = "release"
  /\ flags' = [flags EXCEPT ![fd[t]] = None]
  /\ pc' = [pc EXCEPT ![t] = "free"]
  /\ UNCHANGED <<dev, alt_max_fd, lock, boot, want, fd, i, own, unseen>>

ReleaseDev(t) ==
  /\ pc[t] = "free"
  /\ dev' = [dev EXCEPT ![fd[t]] = NULL]
  /\ pc' = [pc EXCEPT ![t] = "task"]
  /\ fd' = [fd EXCEPT ![t] = 0]
  /\ want' = [want EXCEPT ![t] = NotOpen]
  /\ unseen' = {p \in unseen : p[2] # fd[t]}
  /\ UNCHANGED <<flags, alt_max_fd, lock, boot, i, own>>

-----------------------------------------------------------------------------
(* ioctl(TIOCEXCL) of a device waits for the lock; of a file system it is  *)
(* the file system's.                                                      *)
TIOCEXCL(t, f) ==
  /\ pc[t] = "task"
  /\ own[t][f] # NotOpen /\ flags[f].dev
  /\ fd' = [fd EXCEPT ![t] = f]
  /\ pc' = [pc EXCEPT ![t] = "excl"]
  /\ UNCHANGED <<dev, flags, alt_max_fd, lock, boot, want, i, own, unseen>>

ExclLocked(t) ==
  /\ Pend(t, "excl", "others")
  /\ i' = [i EXCEPT ![t] = 0]
  /\ UNCHANGED <<dev, flags, alt_max_fd, boot, want, fd, own, unseen>>

(* alt_fd_lock: is there another descriptor of the device?  At the last    *)
(* one it does not look.                                                   *)
Granted(f) ==
  /\ flags' = [flags EXCEPT ![f].excl = TRUE]
  /\ unseen' = {p \in unseen : p[1] # f}
                 \cup IF alt_max_fd # f /\ dev[alt_max_fd] = dev[f] THEN {<<f, alt_max_fd>>} ELSE {}

alt_fd_lock(t) ==
  /\ pc[t] = "others"
  /\ \/ /\ i[t] < alt_max_fd
        /\ ~(i[t] # fd[t] /\ dev[i[t]] = dev[fd[t]])
        /\ i' = [i EXCEPT ![t] = @ + 1]
        /\ UNCHANGED <<flags, lock, pc, fd, unseen>>
     \/ /\ i[t] < alt_max_fd => i[t] # fd[t] /\ dev[i[t]] = dev[fd[t]]
        /\ IF i[t] < alt_max_fd THEN UNCHANGED <<flags, unseen>> ELSE Granted(fd[t])
        /\ i' = [i EXCEPT ![t] = 0]
        /\ fd' = [fd EXCEPT ![t] = 0]
        /\ lock' = NULL
        /\ pc' = [pc EXCEPT ![t] = "task"]
  /\ UNCHANGED <<dev, alt_max_fd, boot, want, own>>

(* ioctl(TIOCNXCL) and fcntl(F_SETFL) change the flags of the descriptor.  *)
alt_fd_unlock(t, f) ==
  /\ pc[t] = "task" /\ own[t][f] # NotOpen
  /\ flags[f].dev /\ flags[f].excl
  /\ flags' = [flags EXCEPT ![f].excl = FALSE]
  /\ UNCHANGED <<dev, alt_max_fd, lock, boot, pc, want, fd, i, own, unseen>>

ALT_FCNTL(t, f, nonblock) ==
  /\ pc[t] = "task" /\ own[t][f] # NotOpen
  /\ flags[f].nonblock # nonblock
  /\ flags' = [flags EXCEPT ![f].nonblock = nonblock]
  /\ UNCHANGED <<dev, alt_max_fd, lock, boot, pc, want, fd, i, own, unseen>>

Opens(t) ==
  \/ \E name \in Name, m \in Mode : ALT_OPEN(t, name, m)
  \/ GetLocked(t) \/ alt_get_fd(t)
  \/ OpenFlags(t) \/ alt_file_locked(t) \/ LookForExcl(t) \/ OpenCallback(t)

Closes(t) == (\E f \in Fd : ALT_CLOSE(t, f)) \/ ReleaseFlags(t) \/ ReleaseDev(t)

Controls(t) ==
  \/ \E f \in Fd : TIOCEXCL(t, f) \/ alt_fd_unlock(t, f)
  \/ ExclLocked(t) \/ alt_fd_lock(t)
  \/ \E f \in Fd, nonblock \in BOOLEAN : ALT_FCNTL(t, f, nonblock)

Next ==
  \/ \E f \in Std : alt_io_redirect(f)
  \/ \E t \in Opener : Opens(t) \/ Closes(t) \/ Controls(t)

-----------------------------------------------------------------------------
(* ACCESSES: where one goes, or how it fails.  The UARTs have neither      *)
(* lseek nor fstat, /dev/null only write; a file system has them all.      *)

ALT_WRITE(f) == IF flags[f].mode # "O_RDONLY" THEN dev[f] ELSE <<"EACCES">>

ALT_READ(f) ==
  IF flags[f].mode # "O_WRONLY" /\ dev[f] # DEV_NULL THEN dev[f] ELSE <<"EACCES">>

ALT_LSEEK(f)  == IF dev[f] \in FS THEN dev[f] ELSE <<"ENOTSUP">>
ALT_FSTAT(f)  == IF dev[f] \in FS THEN dev[f] ELSE <<"_IFCHR">>
ALT_ISATTY(f) == ALT_FSTAT(f) = <<"_IFCHR">>

-----------------------------------------------------------------------------
(* PROPERTIES                                                              *)

Holders(f) ==
  {t \in Opener : own[t][f] # NotOpen}
  \cup {t \in Opener : pc[t] \in {"flags", "mark", "look", "callback", "release", "free"}
                       /\ fd[t] = f}

(* No two tasks ever have the same descriptor, none is lost, and what a    *)
(* task does with one that it has opened goes to the device, in the mode,  *)
(* that it asked for, whatever the others open and close meanwhile; printf *)
(* has its descriptors for ever (alt_release_fd.c:44-51).                  *)
DescriptorsExact ==
  /\ \A f \in Fd \ Std :
       IF dev[f] = NULL THEN Holders(f) = {} /\ flags[f] = None
                        ELSE Cardinality(Holders(f)) = 1
  /\ \A t \in Opener, f \in Fd \ Std : own[t][f] # NotOpen =>
       LET d == own[t][f][1]
           m == own[t][f][2]
       IN  /\ ALT_WRITE(f) = IF m = "O_RDONLY" THEN <<"EACCES">> ELSE d
           /\ ALT_READ(f) = IF m = "O_WRONLY" THEN <<"EACCES">> ELSE d
           /\ ALT_ISATTY(f) <=> d \notin FS
           /\ ALT_LSEEK(f) = d <=> d \in FS
  /\ boot = {} /\ JTAG \in Dev =>
       /\ \A f \in {1, 2} : ALT_WRITE(f) = JTAG /\ ALT_READ(f) = <<"EACCES">>
       /\ ALT_READ(0) = JTAG /\ ALT_WRITE(0) = <<"EACCES">>
  /\ boot = {} /\ JTAG \notin Dev => \A f \in Std : ALT_READ(f) = <<"EACCES">>

(* Descriptor g is open for a device that f has to itself.                 *)
Shares(f, g) ==
  /\ boot = {}
  /\ flags[f].excl /\ f # g /\ dev[f] = dev[g]
  /\ g \in Std \/ \E t \in Opener : own[t][g] # NotOpen

(* A device that a descriptor has to itself is open through no other one,  *)
(* whatever is opened while TIOCEXCL looks through the table, but through  *)
(* the one that was the last when it looked: alt_fd_lock.c:61 stops one    *)
(* entry short of it.                                                      *)
ExclusiveButForLast == \A f, g \in Fd : Shares(f, g) => <<f, g>> \in unseen

(* "If there are no other open file descriptors which reference the same   *)
(* device, then alt_fd_lock() will grant the lock.  Further calls to       *)
(* open() for this device will fail" (alt_fd_lock.c:43-46).                *)
ExclusiveMeansAlone == \A f, g \in Fd : ~Shares(f, g)
=============================================================================
