----------------------------- MODULE FileTable -----------------------------
(***************************************************************************)
(* The file descriptors of the HAL: the table behind open, close, fcntl    *)
(* and the exclusive access ioctls, from the redirection of the standard   *)
(* streams at boot on.  There is one thread, and the interrupt handlers do *)
(* not come here, so a call is a step.  read, write and the other requests *)
(* are passed to the driver and leave the table alone; no file system is   *)
(* registered in this system.                                              *)
(***************************************************************************)
EXTENDS Integers

CONSTANTS
  Devices,      \* the device structures, by name
  NullDevice,   \* alt_dev_null
  StdDevice,    \* ALT_STDIN, ALT_STDOUT and ALT_STDERR of system.h
  NoDevice,
  MaxFd         \* ALT_MAX_FD

ASSUME FileTableAssumption ==
  /\ {NullDevice, StdDevice} \subseteq Devices
  /\ NoDevice \notin Devices
  /\ MaxFd \in Nat /\ MaxFd > 3

VARIABLES
  alt_dev_list,         \* the registered devices
  alt_fd_list,
  alt_max_fd,           \* "the highest file descriptor ever allocated"
  redirected,           \* how many of the standard streams are
  held                  \* the descriptors the program got from open and has not closed

files == <<alt_dev_list, alt_fd_list, alt_max_fd, redirected, held>>

Fds == 0 .. MaxFd - 1
Stdio == 0 .. 2
Flags == {"EXCL", "DEV", "NONBLOCK"}
Closed == [dev |-> NoDevice, fd_flags |-> {}]

FilesInit ==
  /\ alt_dev_list = {NullDevice}
  /\ alt_fd_list =
       [fd \in Fds |-> IF fd \in Stdio THEN [dev |-> NullDevice, fd_flags |-> {}] ELSE Closed]
  /\ alt_max_fd = -1
  /\ redirected = 0
  /\ held = {}

\* Mutant: every descriptor goes back to the pool.
ReleasedFd_Always(list, fd) == [list EXCEPT ![fd] = Closed]

\* alt_release_fd: standard in, out and error "are always reserved".
ReleasedFd(list, fd) == IF fd > 2 THEN [list EXCEPT ![fd] = Closed] ELSE list

---------------------------------------------------------------------------
\* Opening

\* Mutants: the mark is that of the last descriptor, and it is one short.
HighWater_Last(fd) == fd
HighWater_Short(fd) == IF fd > alt_max_fd THEN fd - 1 ELSE alt_max_fd

HighWater(fd) == IF fd > alt_max_fd THEN fd ELSE alt_max_fd

\* alt_get_fd and the first half of ALT_OPEN: the first free descriptor is taken.
Allocates(fd) ==
  /\ alt_fd_list[fd].dev = NoDevice
  /\ \A i \in 0 .. fd - 1 : alt_fd_list[i].dev # NoDevice
  /\ alt_max_fd' = HighWater(fd)

Allocated(fd, dev, flags) ==
  [alt_fd_list EXCEPT ![fd] = [dev |-> dev, fd_flags |-> flags \cup {"DEV"}]]

\* alt_file_locked
Locked(fd, dev) ==
  \E i \in 0 .. alt_max_fd' :
    i # fd /\ alt_fd_list[i].dev = dev /\ "EXCL" \in alt_fd_list[i].fd_flags

\* ALT_OPEN of a device that is not locked.
Open(dev, flags) ==
  /\ redirected = 3 /\ dev \in alt_dev_list
  /\ \E fd \in Fds :
       /\ Allocates(fd)
       /\ ~Locked(fd, dev)
       /\ alt_fd_list' = Allocated(fd, dev, flags)
       /\ held' = held \cup {fd}
  /\ UNCHANGED <<alt_dev_list, redirected>>

\* A locked device: the descriptor is released again.  An open that finds no
\* such device or no free descriptor changes nothing.
OpenDenied(dev, flags) ==
  /\ redirected = 3 /\ dev \in alt_dev_list
  /\ \E fd \in Fds :
       /\ Allocates(fd)
       /\ Locked(fd, dev)
       /\ alt_fd_list' = ReleasedFd(Allocated(fd, dev, flags), fd)
  /\ UNCHANGED <<alt_dev_list, redirected, held>>

\* alt_sys_init registers the drivers' devices, with alt_dev_llist_insert.
Register(dev) ==
  /\ redirected = 0 /\ dev \notin alt_dev_list
  /\ alt_dev_list' = alt_dev_list \cup {dev}
  /\ UNCHANGED <<alt_fd_list, alt_max_fd, redirected, held>>

\* STDOUT_FILENO, STDIN_FILENO and STDERR_FILENO, in this order.
NextStream == IF redirected = 0 THEN 1 ELSE IF redirected = 1 THEN 0 ELSE 2

\* alt_io_redirect and alt_open_fd: the stream takes over a descriptor that is
\* opened for it and released; without the device it stays at /dev/null.
Redirect ==
  /\ redirected < 3
  /\ redirected' = redirected + 1
  /\ IF StdDevice \in alt_dev_list
     THEN \E fd \in Fds :
            /\ Allocates(fd)
            /\ alt_fd_list' =
                 LET opened == Allocated(fd, StdDevice, {})
                 IN  ReleasedFd([opened EXCEPT ![NextStream] = opened[fd]], fd)
     ELSE UNCHANGED <<alt_fd_list, alt_max_fd>>
  /\ UNCHANGED <<alt_dev_list, held>>

---------------------------------------------------------------------------
\* The other calls, on a descriptor that is open

Usable(fd) == redirected = 3 /\ fd \in held \cup Stdio

SetFlags(fd, flags) ==
  /\ alt_fd_list' = [alt_fd_list EXCEPT ![fd].fd_flags = flags]
  /\ UNCHANGED <<alt_dev_list, alt_max_fd, redirected, held>>

\* ALT_CLOSE, whatever the close function of the device returns.
CloseFd(fd) ==
  /\ Usable(fd)
  /\ alt_fd_list' = ReleasedFd(alt_fd_list, fd)
  /\ held' = held \ {fd}
  /\ UNCHANGED <<alt_dev_list, alt_max_fd, redirected>>

\* ALT_IOCTL with TIOCEXCL and alt_fd_lock, when the lock is granted.
Lock(fd) ==
  /\ Usable(fd) /\ "DEV" \in alt_fd_list[fd].fd_flags
  /\ \A i \in 0 .. alt_max_fd - 1 : i # fd => alt_fd_list[i].dev # alt_fd_list[fd].dev
  /\ SetFlags(fd, alt_fd_list[fd].fd_flags \cup {"EXCL"})

\* ALT_IOCTL with TIOCNXCL and alt_fd_unlock.
Unlock(fd) ==
  /\ Usable(fd) /\ "DEV" \in alt_fd_list[fd].fd_flags
  /\ SetFlags(fd, alt_fd_list[fd].fd_flags \ {"EXCL"})

\* ALT_FCNTL with F_SETFL; O_APPEND means nothing to a device.
SetBlocking(fd, nonblock) ==
  /\ Usable(fd)
  /\ SetFlags(fd, (alt_fd_list[fd].fd_flags \ {"NONBLOCK"}) \cup nonblock)

FilesNext ==
  \/ Redirect
  \/ \E dev \in Devices : Register(dev)
  \/ \E dev \in Devices, nonblock \in SUBSET {"NONBLOCK"} :
       Open(dev, nonblock) \/ OpenDenied(dev, nonblock)
  \/ \E fd \in Fds : CloseFd(fd) \/ Lock(fd) \/ Unlock(fd)
  \/ \E fd \in Fds, nonblock \in SUBSET {"NONBLOCK"} : SetBlocking(fd, nonblock)

FilesSpec == FilesInit /\ [][FilesNext]_files

---------------------------------------------------------------------------
\* Properties

\* No descriptor the program ever got is above the high-water mark.
FilesTypeOK ==
  /\ alt_dev_list \subseteq Devices
  /\ alt_fd_list \in [Fds -> [dev : Devices \cup {NoDevice}, fd_flags : SUBSET Flags]]
  /\ alt_max_fd \in -1 .. MaxFd - 1
  /\ redirected \in 0 .. 3
  /\ held \subseteq 3 .. alt_max_fd

(***************************************************************************)
(* The table and the program agree on what is open: an open that failed,   *)
(* also after it had its descriptor, has left none behind, and the         *)
(* standard streams stay open whatever is closed, so that printf is safe.  *)
(***************************************************************************)
OpenIsHeld == {fd \in Fds : alt_fd_list[fd].dev # NoDevice} = Stdio \cup held

(***************************************************************************)
(* While a descriptor has exclusive access no open of its device succeeds, *)
(* though the search for it ends at a high-water mark.                     *)
(***************************************************************************)
LockKeepsOthersOut ==
  [][\A fd \in held' \ held : \A i \in Fds \ {fd} :
       alt_fd_list[i].dev = alt_fd_list'[fd].dev => "EXCL" \notin alt_fd_list[i].fd_flags]_files

(***************************************************************************)
(* "If there are no other open file descriptors which reference the same   *)
(* device, then alt_fd_lock() will grant the lock" - and with one it       *)
(* should not: who has exclusive access is alone.                          *)
(***************************************************************************)
LockedAlone ==
  \A fd \in Fds :
    "EXCL" \in alt_fd_list[fd].fd_flags =>
      \A i \in Fds \ {fd} : alt_fd_list[i].dev # alt_fd_list[fd].dev
============================================================================
