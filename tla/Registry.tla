------------------------------ MODULE Registry ------------------------------
(***************************************************************************)
(* The group registry (src/kmodule/group_dev_manager.c): install_group     *)
(* called from tsm_dev_ioctl(IOCTL_INSTALL_GROUP) by concurrent threads,  *)
(* with no lock, between tsm_init and tsm_exit (whose group_free_all      *)
(* frees the groups).                                                     *)
(*                                                                         *)
(* State: the global group_devs pointer and, per group_devices structure, *)
(* its group_devs_list, used and major; the group_dev structures created  *)
(* (with the minor and major their char device was added with); the      *)
(* /dev nodes (device_create) and char regions (alloc_chrdev_region)     *)
(* that exist in the kernel.                                              *)
(*                                                                         *)
(* Each line that reads or writes shared state is its own step: the      *)
(* check of group_devs and its allocation, the lookup, the capacity      *)
(* check, _install_group's read of major and its region allocation, the  *)
(* list_add and the two halves of used++.  The allocations that precede  *)
(* init_workqueue in _install_group fail or succeed together; a failure  *)
(* after init_workqueue leaks the workqueue (dev_reg_fail never destroys *)
(* it; not tracked here).  err is uninitialised when major is already   *)
(* set: ErrGarbage lets it read as negative.                             *)
(***************************************************************************)
EXTENDS Naturals, FiniteSets

CONSTANTS
  Installers,     \* threads calling IOCTL_INSTALL_GROUP
  Ids,            \* descriptors they may pass (some >= DevCount)
  DevCount,       \* GROUP_DEV_COUNT
  DescBits,       \* width of install_group's unsigned char desc
  MaxInstalls,    \* bound: install calls over the whole behaviour
  AllocMayFail,   \* may kzalloc / kmalloc fail?
  RegionMayFail,  \* may alloc_chrdev_region fail?
  ErrGarbage,     \* may the uninitialised err read as negative?
  Attempts        \* ATTEMPTS: open tries of open_group's udev loop

ASSUME DevCount \in Nat \ {0} /\ DescBits \in Nat /\ Ids \subseteq Nat /\ MaxInstalls \in Nat
ASSUME {AllocMayFail, RegionMayFail, ErrGarbage} \subseteq BOOLEAN
ASSUME Attempts \in Nat \ {0}

NULL == 0
Ptrs == 1..MaxInstalls           \* group_devices structures that can exist
Structs == 1..MaxInstalls        \* group_dev structures that can exist
Majors == 1..(MaxInstalls + 1)   \* majors alloc_chrdev_region hands out
Garbage == MaxInstalls + 2       \* MAJOR() of the dev_t a failed call left unset

VARIABLES
  group_devs,    \* the global pointer (NULL or a group_devices)
  gdAlloc,       \* group_devices allocated so far
  gdFreed,       \* group_devices freed (init_group_devs error path)
  gdList,        \* gdList[p]: group_devs_list of p, a set of group_devs
  gdUsed,        \* gdUsed[p]: used
  gdMajor,       \* gdMajor[p]: major (0 until a region is allocated)
  devAlloc,      \* group_dev structures created so far
  devMinor,      \* devMinor[s]: minor of group_dev s
  devMajor,      \* devMajor[s]: major its cdev was added with
  devFreed,      \* group_dev structures freed by group_free
  nodes,         \* /dev nodes: <<major, minor>> pairs
  regions,       \* registered char regions (majors)
  phase,         \* "loading", "live", "failed" (tsm_init returned -1), "unloaded"
  tsmMajor,      \* major of the tsm control device's region (0: none)
  tsmNode,       \* /dev/tsm exists
  majAlloc,      \* majors handed out so far
  ipc, idesc, imajor, iused, istruct, installs,
  iarg,          \* ghost: the descriptor the caller passed
  files,         \* /dev/synch/group_dev<n> files udev has made: the n
  catt,          \* catt[t]: open attempts made by open_group's loop
  cfd,           \* cfd[t]: the group_dev t's open file refers to (0: none)
  memError       \* a NULL or freed group_devs was dereferenced

vars == <<group_devs, gdAlloc, gdFreed, gdList, gdUsed, gdMajor, devAlloc,
          devMinor, devMajor, devFreed, nodes, regions, phase, tsmMajor,
          tsmNode, majAlloc, ipc, idesc, imajor, iused, istruct, installs, iarg,
          files, catt, cfd, memError>>

\* Minors of the group_devs in the list of group_devices p.
Minors(p) == {devMinor[s] : s \in gdList[p]}

\* group_devs points at a live structure.
GdLive == group_devs # NULL /\ group_devs \notin gdFreed

Init ==
  /\ group_devs = NULL /\ gdAlloc = 0 /\ gdFreed = {}
  /\ gdList = [p \in Ptrs |-> {}]
  /\ gdUsed = [p \in Ptrs |-> 0]
  /\ gdMajor = [p \in Ptrs |-> 0]
  /\ devAlloc = 0
  /\ devMinor = [s \in Structs |-> 0]
  /\ devMajor = [s \in Structs |-> 0]
  /\ devFreed = {} /\ nodes = {} /\ regions = {}
  /\ phase = "loading" /\ tsmMajor = 0 /\ tsmNode = FALSE
  /\ ipc = [t \in Installers |-> "idle"]
  /\ idesc = [t \in Installers |-> 0]
  /\ imajor = [t \in Installers |-> 0]
  /\ iused = [t \in Installers |-> 0]
  /\ istruct = [t \in Installers |-> 0]
  /\ iarg = [t \in Installers |-> 0]
  /\ files = {}
  /\ catt = [t \in Installers |-> 0]
  /\ cfd = [t \in Installers |-> 0]
  /\ majAlloc = 0 /\ installs = 0 /\ memError = FALSE

Goto(t, l) == ipc' = [ipc EXCEPT ![t] = l]

Locals == <<idesc, imajor, iused, istruct, installs, iarg>>
Registry == <<group_devs, gdAlloc, gdFreed, gdList, gdUsed, gdMajor>>
Kernel == <<devAlloc, devMinor, devMajor, devFreed, nodes, regions,
            majAlloc, tsmMajor, tsmNode>>

-----------------------------------------------------------------------------
\* tsm_init: alloc_chrdev_region for the control device (TSM_MAJOR is 0),
\* then class_create, cdev_add and device_create of /dev/tsm, whose
\* results are not checked.  A failed region allocation returns -1 and
\* the module is not loaded.
TsmInit ==
  /\ phase = "loading"
  /\ \/ LET m == majAlloc + 1 IN
          /\ majAlloc' = m
          /\ regions' = regions \cup {m}
          /\ tsmMajor' = m /\ tsmNode' = TRUE
          /\ phase' = "live"
     \/ /\ RegionMayFail
        /\ phase' = "failed"
        /\ UNCHANGED <<majAlloc, regions, tsmMajor, tsmNode>>
  /\ UNCHANGED <<devAlloc, devMinor, devMajor, devFreed, nodes, ipc, memError>>
  /\ UNCHANGED Locals /\ UNCHANGED Registry
  /\ UNCHANGED <<files, catt, cfd>>

\* tsm_dev_ioctl(IOCTL_INSTALL_GROUP): copy the group_t; install_group
\* stores group_desc->desc in an unsigned char (the value modulo
\* 2^DescBits), rejects desc >= GROUP_DEV_COUNT and otherwise goes on to
\* the group_devs check.
\* unsigned char desc = group_desc->desc.
Narrow(d) == d % (2 ^ DescBits)

\* if (desc >= GROUP_DEV_COUNT) goto exit.
Rejected(desc) == desc >= DevCount

InstallStart(t, d) ==
  LET desc == Narrow(d) IN
  /\ phase = "live" /\ ipc[t] = "idle" /\ installs < MaxInstalls
  /\ installs' = installs + 1
  /\ idesc' = [idesc EXCEPT ![t] = desc]
  /\ iarg' = [iarg EXCEPT ![t] = d]
  /\ Goto(t, IF Rejected(desc) THEN "idle" ELSE "init")
  /\ UNCHANGED <<imajor, iused, istruct, memError, phase>>
  /\ UNCHANGED Registry /\ UNCHANGED Kernel
  /\ UNCHANGED <<files, catt, cfd>>

\* if (!group_devs): the test, apart from the allocation that follows it.
InitCheck(t) ==
  /\ ipc[t] = "init"
  /\ Goto(t, IF group_devs = NULL THEN "alloc" ELSE "lookup")
  /\ UNCHANGED <<memError, phase>> /\ UNCHANGED Locals
  /\ UNCHANGED Registry /\ UNCHANGED Kernel
  /\ UNCHANGED <<files, catt, cfd>>

\* init_group_devs(), its result ignored.  kzalloc failing stores NULL;
\* the list kmalloc failing kfree's the structure but leaves group_devs
\* pointing at it.
InitAlloc(t) ==
  /\ ipc[t] = "alloc"
  /\ LET p == gdAlloc + 1 IN
       \/ /\ group_devs' = p /\ gdAlloc' = p
          /\ UNCHANGED gdFreed
       \/ /\ AllocMayFail
          /\ group_devs' = NULL
          /\ UNCHANGED <<gdAlloc, gdFreed>>
       \/ /\ AllocMayFail
          /\ group_devs' = p /\ gdAlloc' = p
          /\ gdFreed' = gdFreed \cup {p}
  /\ Goto(t, "lookup")
  /\ UNCHANGED <<gdList, gdUsed, gdMajor, memError, phase>>
  /\ UNCHANGED Locals /\ UNCHANGED Kernel
  /\ UNCHANGED <<files, catt, cfd>>

\* Steps that dereference group_devs.
Derefs(t) ==
  \/ ipc[t] \in {"lookup", "space", "major", "link", "incr", "incw"}
  \/ ipc[t] = "region" /\ imajor[t] = 0

\* A dereference of a NULL or freed group_devs: the calling thread oopses.
Oops(t) ==
  /\ Derefs(t) /\ ~GdLive
  /\ memError' = TRUE
  /\ Goto(t, "oops")
  /\ UNCHANGED phase /\ UNCHANGED Locals
  /\ UNCHANGED Registry /\ UNCHANGED Kernel
  /\ UNCHANGED <<files, catt, cfd>>

\* Mutant: the lookup never matches (a wrong comparison in _get_group).
LookupMisses(t) ==
  /\ ipc[t] = "lookup" /\ GdLive
  /\ Goto(t, "space")
  /\ UNCHANGED <<memError, phase>> /\ UNCHANGED Locals
  /\ UNCHANGED Registry /\ UNCHANGED Kernel
  /\ UNCHANGED <<files, catt, cfd>>

\* get_group(desc): a group_dev with this minor is already listed, so
\* install_group returns 0 and open_group goes on to open the node.
Lookup(t) ==
  /\ ipc[t] = "lookup" /\ GdLive
  /\ Goto(t, IF idesc[t] \in Minors(group_devs) THEN "opened" ELSE "space")
  /\ UNCHANGED <<memError, phase>> /\ UNCHANGED Locals
  /\ UNCHANGED Registry /\ UNCHANGED Kernel
  /\ UNCHANGED <<files, catt, cfd>>

\* if (GROUP_DEV_COUNT < group_devs->used + 1) fail.
Space(t) ==
  /\ ipc[t] = "space" /\ GdLive
  /\ Goto(t, IF DevCount < gdUsed[group_devs] + 1 THEN "idle" ELSE "major")
  /\ UNCHANGED <<memError, phase>> /\ UNCHANGED Locals
  /\ UNCHANGED Registry /\ UNCHANGED Kernel
  /\ UNCHANGED <<files, catt, cfd>>

\* _install_group: read group_devs->major, then the allocations of the
\* name, the group_dev and its lists and semaphores (each failure unwinds
\* the earlier ones) and init_workqueue.
InstallAlloc(t) ==
  /\ ipc[t] = "major" /\ GdLive
  /\ imajor' = [imajor EXCEPT ![t] = gdMajor[group_devs]]
  /\ \/ Goto(t, "region")
     \/ AllocMayFail /\ Goto(t, "idle")
  /\ UNCHANGED <<idesc, iused, istruct, installs, iarg, memError, phase>>
  /\ UNCHANGED Registry /\ UNCHANGED Kernel
  /\ UNCHANGED <<files, catt, cfd>>

\* cdev_init, cdev_add and device_create for the new group_dev s with
\* major m; device_create fails, unchecked, when a node of that name
\* (group_dev<minor>) exists.
Create(t, m) ==
  LET s == devAlloc + 1 IN
  /\ devAlloc' = s
  /\ devMinor' = [devMinor EXCEPT ![s] = idesc[t]]
  /\ devMajor' = [devMajor EXCEPT ![s] = m]
  /\ nodes' = IF \E n \in nodes : n[2] = idesc[t] THEN nodes
              ELSE nodes \cup {<<m, idesc[t]>>}
  /\ istruct' = [istruct EXCEPT ![t] = s]
  /\ Goto(t, "link")

\* dev_reg_fail: everything is freed except the workqueue (not tracked);
\* install_group returns -1.
RegFail(t) == Goto(t, "idle")

\* Mutant: the allocated major is not stored back in group_devs->major.
RegionNoSave(t) ==
  /\ ipc[t] = "region"
  /\ imajor[t] = 0 => GdLive
  /\ IF imajor[t] = 0
       THEN \/ LET m == majAlloc + 1 IN
                 /\ majAlloc' = m
                 /\ regions' = regions \cup {m}
                 /\ Create(t, m)
                 /\ UNCHANGED gdMajor
            \/ /\ RegionMayFail
               /\ RegFail(t)
               /\ UNCHANGED <<gdMajor, majAlloc, regions, devAlloc, devMinor,
                              devMajor, nodes, istruct>>
       ELSE \/ /\ Create(t, imajor[t])
               /\ UNCHANGED <<gdMajor, majAlloc, regions>>
            \/ /\ ErrGarbage
               /\ RegFail(t)
               /\ UNCHANGED <<gdMajor, majAlloc, regions, devAlloc,
                              devMinor, devMajor, nodes, istruct>>
  /\ UNCHANGED <<group_devs, gdAlloc, gdFreed, gdList, gdUsed, devFreed>>
  /\ UNCHANGED <<tsmMajor, tsmNode>>
  /\ UNCHANGED <<idesc, imajor, iused, installs, iarg, memError, phase>>
  /\ UNCHANGED <<files, catt, cfd>>

\* if (!major) alloc_chrdev_region and group_devs->major = MAJOR(dev);
\* if (err < 0) goto dev_reg_fail; err is never set when major was set.
Region(t) ==
  /\ ipc[t] = "region"
  /\ imajor[t] = 0 => GdLive
  /\ IF imajor[t] = 0
       THEN \/ LET m == majAlloc + 1 IN
                 /\ majAlloc' = m
                 /\ regions' = regions \cup {m}
                 /\ gdMajor' = [gdMajor EXCEPT ![group_devs] = m]
                 /\ Create(t, m)
            \/ /\ RegionMayFail
               /\ \E g \in {0, Garbage} :
                    gdMajor' = [gdMajor EXCEPT ![group_devs] = g]
               /\ RegFail(t)
               /\ UNCHANGED <<majAlloc, regions, devAlloc, devMinor,
                              devMajor, nodes, istruct>>
       ELSE \/ /\ Create(t, imajor[t])
               /\ UNCHANGED <<gdMajor, majAlloc, regions>>
            \/ /\ ErrGarbage
               /\ RegFail(t)
               /\ UNCHANGED <<gdMajor, majAlloc, regions, devAlloc,
                              devMinor, devMajor, nodes, istruct>>
  /\ UNCHANGED <<group_devs, gdAlloc, gdFreed, gdList, gdUsed, devFreed>>
  /\ UNCHANGED <<tsmMajor, tsmNode>>
  /\ UNCHANGED <<idesc, imajor, iused, installs, iarg, memError, phase>>
  /\ UNCHANGED <<files, catt, cfd>>

\* list_add(&gd->list, group_devs->group_devs_list).
Link(t) ==
  /\ ipc[t] = "link" /\ GdLive
  /\ gdList' = [gdList EXCEPT ![group_devs] = @ \cup {istruct[t]}]
  /\ Goto(t, "incr")
  /\ UNCHANGED <<group_devs, gdAlloc, gdFreed, gdUsed, gdMajor>>
  /\ UNCHANGED <<memError, phase>> /\ UNCHANGED Locals /\ UNCHANGED Kernel
  /\ UNCHANGED <<files, catt, cfd>>

\* group_devs->used++, a load ...
IncRead(t) ==
  /\ ipc[t] = "incr" /\ GdLive
  /\ iused' = [iused EXCEPT ![t] = gdUsed[group_devs]]
  /\ Goto(t, "incw")
  /\ UNCHANGED <<idesc, imajor, istruct, installs, iarg, memError, phase>>
  /\ UNCHANGED Registry /\ UNCHANGED Kernel
  /\ UNCHANGED <<files, catt, cfd>>

\* ... and a store; install_group returns 0.
IncWrite(t) ==
  /\ ipc[t] = "incw" /\ GdLive
  /\ gdUsed' = [gdUsed EXCEPT ![group_devs] = iused[t] + 1]
  /\ Goto(t, "opened")
  /\ UNCHANGED <<group_devs, gdAlloc, gdFreed, gdList, gdMajor>>
  /\ UNCHANGED <<memError, phase>> /\ UNCHANGED Locals /\ UNCHANGED Kernel
  /\ UNCHANGED <<files, catt, cfd>>

-----------------------------------------------------------------------------
(* The rest of open_group (src/lib/tsm_lib.c) once IOCTL_INSTALL_GROUP    *)
(* returned 0, udev turning device nodes into files, and close_group.     *)

\* IOCTL_MAX_MESSAGE_SIZE (copy_to_user to the library's own variable),
\* close of /dev/tsm, malloc of the name (which may fail: open_group
\* returns -1) and sprintf(GROUP_DEV, group_descriptor->desc).
OpenStart(t) ==
  /\ ipc[t] = "opened"
  /\ \/ Goto(t, "open")
     \/ AllocMayFail /\ Goto(t, "idle")
  /\ catt' = [catt EXCEPT ![t] = 0]
  /\ UNCHANGED <<files, cfd, memError, phase>> /\ UNCHANGED Locals
  /\ UNCHANGED Registry /\ UNCHANGED Kernel

\* The group_devs an open of /dev/synch/group_dev<n> reaches: udev made
\* the file from a node <<major, n>>, and group_open takes the cdev added
\* with that dev_t, if it was not deleted since.
Reached(n) ==
  {s \in 1..devAlloc :
     /\ s \notin devFreed
     /\ <<devMajor[s], devMinor[s]>> \in {f \in files : f[2] = n}}

\* One pass of the loop: open succeeds (group_open stores the group_dev
\* in private_data) and open_group returns the fd, or it fails and the
\* loop sleeps(0) and retries, until ATTEMPTS tries have failed.
OpenTry(t) ==
  /\ ipc[t] = "open"
  /\ \/ \E s \in Reached(iarg[t]) :
          /\ cfd' = [cfd EXCEPT ![t] = s]
          /\ Goto(t, "holding")
          /\ UNCHANGED catt
     \/ /\ Reached(iarg[t]) = {}
        /\ IF catt[t] + 1 < Attempts
             THEN catt' = [catt EXCEPT ![t] = @ + 1] /\ UNCHANGED ipc
             ELSE Goto(t, "idle") /\ UNCHANGED catt
        /\ UNCHANGED cfd
  /\ UNCHANGED <<files, memError, phase>> /\ UNCHANGED Locals
  /\ UNCHANGED Registry /\ UNCHANGED Kernel

\* close_group: close(fd); group_release does nothing.
CloseGroup(t) ==
  /\ ipc[t] = "holding"
  /\ cfd' = [cfd EXCEPT ![t] = 0]
  /\ Goto(t, "idle")
  /\ UNCHANGED <<files, catt, memError, phase>> /\ UNCHANGED Locals
  /\ UNCHANGED Registry /\ UNCHANGED Kernel

\* udev, asynchronously: a file for each node device_create made, gone
\* once device_destroy removed the node.
Udev ==
  /\ \/ \E f \in nodes \ files : files' = files \cup {f}
     \/ \E f \in files \ nodes : files' = files \ {f}
  /\ UNCHANGED <<ipc, catt, cfd, memError, phase>> /\ UNCHANGED Locals
  /\ UNCHANGED Registry /\ UNCHANGED Kernel

\* The region group_free_all unregisters, MKDEV(group_devs->major, 0),
\* if group_devs is set.
GroupRegion == IF group_devs = NULL THEN {} ELSE {gdMajor[group_devs]}

\* group_free_all: with group_devs NULL nothing is freed; otherwise every
\* listed group_dev has its node destroyed as MKDEV(group_devs->major,
\* minor) and is freed.
FreeAll ==
  /\ group_devs # NULL =>
       LET p == group_devs IN
       /\ nodes' = nodes \ {<<gdMajor[p], devMinor[s]>> : s \in gdList[p]}
       /\ devFreed' = devFreed \cup gdList[p]
  /\ group_devs = NULL => UNCHANGED <<nodes, devFreed>>

\* tsm_exit, possible once no ioctl is in progress and no group file is
\* open (an open file pins the module): group_free_all, which also
\* unregisters the groups' region, then device_destroy of /dev/tsm and
\* unregister_chrdev_region of the control device's major.
Exit ==
  /\ phase = "live"
  /\ \A t \in Installers : ipc[t] \in {"idle", "oops", "open"}
  /\ FreeAll
  /\ regions' = regions \ (GroupRegion \cup {tsmMajor})
  /\ tsmNode' = FALSE
  /\ phase' = "unloaded"
  /\ UNCHANGED <<devAlloc, devMinor, devMajor, majAlloc, tsmMajor, ipc,
                 memError>>
  /\ UNCHANGED Locals /\ UNCHANGED Registry
  /\ UNCHANGED <<files, catt, cfd>>

-----------------------------------------------------------------------------
\* A thread oopsed or the module is gone: nothing more happens.
Terminated == memError \/ phase \in {"failed", "unloaded"}

Next ==
  \/ ~memError /\
       \/ \E t \in Installers :
            \/ \E d \in Ids : InstallStart(t, d)
            \/ InitCheck(t) \/ InitAlloc(t) \/ Oops(t) \/ Lookup(t)
            \/ Space(t) \/ InstallAlloc(t) \/ Region(t) \/ Link(t)
            \/ IncRead(t) \/ IncWrite(t)
            \/ OpenStart(t) \/ OpenTry(t) \/ CloseGroup(t)
       \/ TsmInit \/ Udev \/ Exit
  \/ Terminated /\ UNCHANGED vars

Spec == Init /\ [][Next]_vars

-----------------------------------------------------------------------------
(* Properties                                                              *)

TypeOK ==
  /\ group_devs \in {NULL} \cup Ptrs /\ gdFreed \subseteq Ptrs
  /\ gdList \in [Ptrs -> SUBSET Structs]
  /\ gdUsed \in [Ptrs -> Nat] /\ gdMajor \in [Ptrs -> {0, Garbage} \cup Majors]
  /\ devAlloc \in 0..MaxInstalls /\ devFreed \subseteq 1..devAlloc
  /\ nodes \subseteq ({Garbage} \cup Majors) \X (0..(2 ^ DescBits - 1)) /\ regions \subseteq Majors
  /\ ipc \in [Installers -> {"idle", "init", "alloc", "lookup", "space",
                             "major", "region", "link", "incr", "incw",
                             "opened", "open", "holding", "oops"}]
  /\ files \subseteq ({Garbage} \cup Majors) \X (0..(2 ^ DescBits - 1))
  /\ catt \in [Installers -> 0..Attempts]
  /\ cfd \in [Installers -> 0..MaxInstalls]
  /\ phase \in {"loading", "live", "failed", "unloaded"}
  /\ tsmMajor \in {0} \cup Majors /\ tsmNode \in BOOLEAN

(* RegistryInvariant (spec, Registry): whenever no install is in progress *)
(* the live group_devices lists each minor at most once, used equals the  *)
(* length of group_devs_list, and used <= GROUP_DEV_COUNT.                *)
RegistryInvariant ==
  (\A t \in Installers : ipc[t] \in {"idle", "open", "holding"}) /\ GdLive =>
    LET p == group_devs IN
    /\ gdUsed[p] = Cardinality(gdList[p])
    /\ Cardinality(Minors(p)) = Cardinality(gdList[p])
    /\ gdUsed[p] <= DevCount

(* CleanUnload: after tsm_exit no /dev node (a group's or /dev/tsm) and   *)
(* no char region (a group's or the control device's) is left, and every  *)
(* group_dev that was created was freed.                                  *)
CleanUnload ==
  phase = "unloaded" =>
    /\ nodes = {} /\ regions = {} /\ ~tsmNode
    /\ devFreed = 1..devAlloc

=============================================================================
