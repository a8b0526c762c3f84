# JOS extension: TLA+ models, model checking and proofs

The repository holds six stages of the same operating system: `lab1` to `lab5`
are snapshots of the course work, `jos_extension` is the last and complete one
(multiprocessor kernel, user-level fork, IPC, file server, pipes, spawn/exec,
priorities, a RAID-2 demonstration). Everything here is about
`jos_extension`; paths below are relative to it.

## 1. The system

JOS is an exokernel for 32-bit x86. One big lock serialises the kernel; user
environments run on several CPUs; fork, pipes, files and program loading are
user-level libraries over a few system calls; the file server is an
environment that clients reach with synchronous messages.

| component | state it keeps | operations | interacts with |
|---|---|---|---|
| big kernel lock and CPU start (`kern/spinlock.c`, `kern/init.c`, `kern/cpu.h`) | `kernel_lock.locked`, `.cpu`; `cpu_status` of each CPU | `spin_lock`, `spin_unlock`, `boot_aps`, `mp_main` | taken in `trap()`, `i386_init`, `mp_main`; dropped in `env_run`, `sched_halt` |
| environments (`kern/env.c`, `inc/env.h`) | `envs[]`, `env_free_list`, `curenv` per CPU | `env_alloc`, `env_free`, `env_destroy`, `env_run`, `env_pop_tf`, `envid2env` | called by traps and system calls; owns a page directory of pmap |
| scheduler (`kern/sched.c`) | none of its own | `sched_yield`, `sched_halt` | ends every trap that does not return to its environment |
| traps (`kern/trap.c`) | trap frames | `trap`, `trap_dispatch`, `page_fault_handler` | timer, devices, faults, system calls |
| system calls (`kern/syscall.c`) | - | 20 calls: environments, pages, IPC, priorities, exec, RAID | everything above and pmap |
| physical pages and page tables (`kern/pmap.c`) | `pages[].pp_ref`, `page_free_list`, page directories and tables, the TLBs | `page_alloc`, `page_free`, `page_decref`, `pgdir_walk`, `page_insert`, `page_lookup`, `page_remove` | `env_setup_vm`, `env_free`, page calls, IPC, exec; reference counts are visible to user code |
| fork (`lib/fork.c`, `lib/pgfault.c`) | page table bits PTE_COW, PTE_SHARE | `fork`, `duppage`, `pgfault` | page calls, the page fault upcall |
| IPC library and file client (`lib/ipc.c`, `lib/file.c`) | `fsipcbuf` | `ipc_send`, `ipc_recv`, `fsipc`, `open`, `read` | system calls, file server |
| file server (`fs/serv.c`, `fs/fs.c`, `fs/bc.c`) | `opentab[]`, block cache | `serve_open`, `serve_read`, `serve_stat`, `serve_flush` | clients; reads reference counts of the pages it shares with them |
| descriptors and pipes (`lib/fd.c`, `lib/pipe.c`) | descriptor pages, the pipe's ring buffer | `pipe`, `read`, `write`, `close`, `dup` | shared memory between environments, `pageref` |
| spawn, exec, exit, wait (`lib/spawn.c`, ...) | - | `spawn`, `exec`, `exit`, `wait` | file server, page calls |
| RAID-2 demonstration (in `kern/syscall.c`) | seven chains of 32-bit disks, dirty flags | init, add, change, check | `raid2` system calls |
| console (`kern/console.c`) | 512-byte input ring | `cons_intr`, `cons_getc` | keyboard and serial interrupts, `sys_cgetc` |

Not considered further: the boot loader, entry points in assembly, device
drivers, the monitor, formatting and strings, and the programs themselves
(`PROJECT.json` says why).

### What is hard, and what makes each part correct

* **Lock and CPU start.** `holding()` reads two words without the lock; a CPU
  woken from `hlt` takes the lock in one place and a CPU coming from user code
  in another; `boot_aps` waits for the other CPUs while it holds the lock.
  Correct: mutual exclusion on every path, no false "already holding", the
  handshake ends.
* **Environments and scheduler.** An environment is killed by one CPU while it
  runs on another; statuses are the only record of which CPU runs what;
  `env_pop_tf` runs after the lock is dropped; halted CPUs, zombies and the
  monitor race. Correct: no environment on two CPUs, the statuses tell the
  truth, the free list is exact, no page directory is freed while in use, every
  zombie is freed, a runnable environment runs.
* **IPC in the kernel.** The receiver's flags and its status change together.
  Correct: nobody stays blocked with a message, only blocked receivers are
  woken.
* **Pages.** Sharing makes reference counts a protocol between environments;
  insertions fail half way; TLBs are not invalidated. Correct: a page's count is
  the number of its mappings, free pages are mapped nowhere.
* **Fork.** Parent, child and fault handler work on the same pages with several
  system calls each. Correct: no write of one is seen by another.
* **Pipes.** Lock-free ring buffer in shared memory; end of file is deduced
  from two reference counts read one after the other. Correct: bytes arrive in
  order, end of file only when the writers are gone.
* **File service.** Clients die between request and reply; file ids and
  descriptor pages are reused. Correct: a reply belongs to its request, an open
  file is not given away.

## 2. Modules

| module | what it is |
|---|---|
| `AbstractLock` | what the kernel needs of its lock: request, grant, release |
| `KernelLock` | the spinlock one memory access at a time, with every caller; implements `AbstractLock` |
| `MCKernelLock` | three CPUs for TLC |
| `KernelLockProofs` | proofs about `KernelLock` for any number of CPUs |
| `AbstractEnvs` | what the kernel promises of environments: a life cycle, and processors given out by priority |
| `Kernel` | environments, scheduler, traps and system calls; one step is one stay in the kernel; implements `AbstractEnvs` |
| `MCKernel` | instances of `Kernel` for TLC |
| `KernelProofs` | proofs about `Kernel` for any number of CPUs and environments |
| `AbstractSpaces` | what programs see of the page calls: address spaces as partial functions |
| `AddrSpace` | physical pages, reference counts, two-level page tables, TLBs and what changes them; implements `AbstractSpaces` |
| `MCAddrSpace` | two CPUs, two environments, five pages for TLC |
| `AddrSpaceProofs` | proofs about `AddrSpace` for any number of CPUs, environments, pages and addresses |
| `Pipe` | one pipe in shared memory, one access or system call at a time |
| `MCPipe` | instances of `Pipe` for TLC |
| `PipeProofs` | proofs about `Pipe` for any number of environments, descriptors and bytes |
| `AbstractFiles` | what programs see of files: descriptors that share a position, calls that are answered once |
| `FileService` | the file server, its clients and their messages, one system call or shared access at a time; implements `AbstractFiles` |
| `MCFileService` | a shell and its child for TLC |
| `FileServiceProofs` | proofs about `FileService` for any number of clients, descriptors, entries of `opentab` and files |
| `AbstractFork` | what programs see of fork: memories that are copied |
| `CowFork` | copy-on-write fork and its fault handler, one system call, fault or access at a time; implements `AbstractFork` |
| `MCCowFork` | three environments for TLC |
| `CowForkProofs` | proofs about `CowFork` for any number of environments, addresses and pages |
| `Raid2` | the four RAID system calls |
| `MCRaid2` | disks of two bits for TLC |
| `Raid2Proofs` | proofs about `Raid2` for disks of any width, any number of them and calls of any length |

The modules are layers. `KernelLock` shows that what happens in the kernel is
one step to the other CPUs; `Kernel` takes that for granted and says which
environment runs where; `AddrSpace` takes a coarser scheduler (any environment
that can run) and says what memory it sees; `Pipe`, `FileService` and `CowFork`
take mappings and their counts as functions of each environment's addresses and
say what user code makes of them. `FileService` also takes from `Kernel` that a
message is delivered in one step and that whoever can run does. `Raid2` stands
alone.

### KernelLock

`locked`, `lkcpu` and `cpu_status` are the fields of the same name (`lkcpu` is
`kernel_lock.cpu`). `pc` is the place of each CPU: outside the kernel (`user`,
`halted`), in `trap()` before it owns the lock (`trap`, `trapMode`), inside
`spin_lock` (`holdLocked`, `holdCpu`, `xchg`, `setCpu`), in the kernel
(`kernel`, `bootAps`), or inside `spin_unlock` (`relLocked`, `relCpu`,
`clearCpu`, `xchg0`). Each action is one shared memory access; `ret` is where
the call returns to. `tfmode` is the mode the trap interrupted, from which
`trap()` decides whether to take the lock. What the kernel does with the lock
is one program point here and the subject of `Kernel`.

Memory is sequentially consistent. Both lock operations are `xchg`, which is
serialising on x86; the only plain accesses are those to `lk->cpu`, whose order
with respect to the `xchg` x86 keeps.

### Kernel

`envs`, `env_free_list` and `curenv` are the kernel's; `mode` says what each
CPU does. A handler computes the table it leaves behind and ends in one of the
operators for the ways out of the kernel: `EnvRun`, `SchedYield` (with
`SchedHalt`) or `Resume` (the end of `trap()`); so one action contains the
handler and everything it calls. `KernelLock` justifies treating that as one
step: at most one CPU is in the kernel. The exception, `env_pop_tf` after
`unlock_kernel`, is the step `PopTf`, and other CPUs may act before it.

| code | action |
|---|---|
| end of `i386_init`, `mp_main` | `Boot` |
| interrupt of a halted CPU | `WakeUp` |
| `trap()` with a zombie | `ReapZombie` |
| timer, `sys_yield` | `Yield` |
| device interrupt, breakpoint, call that fails or leaves the table alone | `Return` |
| page fault with an upcall, successful `sys_exec` | `Rerun` |
| exception, fatal page fault, bad pointer | `Fault` |
| `sys_exofork`, `sys_env_destroy`, `sys_env_set_status`, `sys_ipc_recv`, `sys_ipc_try_send`, `sys_change_priority` | `Exofork`, `EnvDestroy`, `EnvSetStatus`, `IpcRecv`, `IpcTrySend`, `ChangePriority` |

An environment record keeps the status, the generation of its id, its parent,
whether it ever ran, whether it has a page directory, the two IPC flags and the
priority. `env_alloc` resets neither the priority nor `env_ipc_from`, and
neither does the model. Registers, the IPC payload, `env_cpunum` and address
spaces are left out; a call that fails for want of memory is a `Return`.

`Spec` lets programs make any call. `LibSpec` restricts two of them to the way
the library and the programs of the repository use them: `sys_env_set_status`
starts a child once, after `sys_exofork` (`fork`, `spawn`, `dumbfork`), and
nobody destroys a child that is already dying.

`AbstractEnvs` has three variables: the stage of each environment (`unused`,
`made`, `ready`, `running`, `waiting`, `killed`), the environment each CPU
executes, and the priorities. `LifeOf` reads the stage off `env_status` and
`env_ipc_recving`; the free list, the ids, the modes and the order of the search
are gone. Its steps say who may do what: only a CPU whose environment runs and
was not killed changes another one (`Manage`), along the pairs of `Change`; a
running environment stops only by itself (`Wait`, `End`), for another one of at
least its priority (`Preempt`), or, once it is marked, when it traps; and a CPU
that loses its environment gets one of the ready environments of highest
priority, and none only if there is none (`Dispatch`). Most traps end where
they began and change nothing there. An idle CPU that stays idle is no step of
it either: that a CPU does not stay idle for ever is a matter of liveness.

### AddrSpace

`mem` is what the functions of `pmap.c` work on: `pp_ref`, the free pages and
the entries that directories and tables hold. Each of those functions is an
operator from one `mem` to the next, so that a system call is their
composition, as in the code. Where `page_alloc` may return any free page the
action chooses it (`\E p \in mem.free`), and `NewTables` is empty when
`pgdir_walk` finds no page for a table: a call that fails with `-E_NO_MEM`
leaves nothing behind. An entry that is 0 is not present and names page 0,
since `page_lookup` makes a page of it all the same.

`env_free` is written twice: `FreeLoop` with its two loops, one inside the other
(`Unmapped` and `FreeTable`, recursive functions over the rounds), and `EnvFree`
with the number of times each page is decremented, which is what the actions
use; `EnvFreeIsItsLoops` compares the two in every reachable state. `Visit` is
the order in which the loops take the indices, any order.

`stale` has, for each CPU, the addresses whose translation its TLB may still
hold although the tables changed since it last loaded `cr3`. A TLB is assumed
to hold everything that it may.

`Spec` has any call; `LibSpec` the calls the library makes: it maps and moves
only mapped pages, and changes a child's address space only before it starts
the child. Left out: the part of the address space above `UTOP`, other
permission bits than `PTE_P` and `PTE_W`, the contents of data pages.

### Pipe

Descriptor `s` is the page at address `s` and the pipe mapped at `Data(s)`;
`map` has the addresses each environment has mapped, from which the two counts
that `_pipeisclosed` compares follow. `pc` has the place and the local
variables of each environment, `running` the ones on a CPU.

| code | action |
|---|---|
| `env_run`, which counts `env_runs` | `EnvRun` |
| `close` (two unmaps), `dup` (two maps) | `Close`, `CloseData`; `Dup`, `DupFd` |
| `fork`, `copy_shared_pages`: a map per page in the order of addresses | `Fork`, `DupPage`, `Start` |
| end of `exit`, `sys_env_destroy` | `Exit` |
| `_pipeisclosed`: `env_runs`, the two counts in either order, `env_runs` | `PipeIsClosed`, `ReadFdRefs`, `ReadPipeRefs`, `Compare`, `Closed` |
| `devpipe_read`: test, take, increment | `Read`, `CheckEmpty`, `Take`, `IncRpos` |
| `devpipe_write`: test, store, increment | `Write`, `CheckFull`, `Store`, `IncWpos` |

A read or write of several bytes is several of one byte. One environment reads
and one writes, as everywhere in the repository; the code has no protection
for two readers. Destroying an environment unmaps its pages in one step, under
the kernel lock; user code on another CPU could see it half done.

### FileService

`open` is `opentab` together with the `Fd` page of each entry: whether the
server has mapped it, its file id and `fd_offset`, which clients write too
(`seek`). `fd` has the open file behind each descriptor of each client; the
reference count that `openfile_alloc` and `openfile_lookup` look at is their
number plus the server's own mapping. `ipc` has the `env_ipc` fields, `pc` the
place of each client with `fsipcbuf`, `srv` the place of the server.

| code | action |
|---|---|
| `open`, `devfile_read`, `devfile_stat`, `devfile_flush` up to `fsipc` | `ClientOpen`, `FdRequest` |
| `ipc_send` and `ipc_recv` in `fsipc`, its return | `Send`, `Recv`, `Return` |
| `fd_close` after the flush; `seek`; `dup` | `Unmap`; `Seek`; `Dup` |
| `fork`, `copy_shared_pages` | `Fork`, `DupPage`, `Start` |
| end of `exit`, `sys_env_destroy` by the parent | `Exit`, `Kill` |
| `ipc_recv` in `serve` | `ServerRecv` |
| `serve_open` with `openfile_alloc`, entry by entry | `ServeOpen`, `ScanUsed`, `ScanFree`, `ScanFails` |
| `serve_read`, the addition to `fd_offset` | `ServeRead`, `Advance` |
| `serve_stat`, `serve_flush`, a lookup that fails | `ServeStat`, `ServeFlush`, `ServeError` |
| `ipc_send` of the reply, its panic | `SendReply`, `Panic` |

`fd_offset += r` is one step after the read of the block: on one CPU, where the
addition is one instruction, that is exact. `file_open` is a lookup that finds
the file or does not, `file_read` the range it returns; both may touch the
disk, which only takes time. `sys_ipc_try_send` cannot find memory missing for
a page table here. Fields that nobody reads again are cleared (`Read`), which
keeps states few. A client that is destroyed while the server works for it
makes the server panic, as in the code; the system then serves nobody, and
`ImplementsFiles` says only that nobody gets a wrong answer. The branch of
`serve` for a request without a page is not reachable for clients of the
library (and, because of the stale permission, hardly for anybody: section 3).

### CowFork

`map` has a page and a permission for each environment and address, `mem` the
contents of the pages, `fault` the step of `pgfault` an environment is at,
`pc` the step of `fork`. Addresses are ordered as in memory: `PFTEMP`, the
program's, the exception stack.

| code | action |
|---|---|
| a store to a writable page, one that faults | `Write`, `Fault` (`page_fault_handler`) |
| `pgfault`: allocate at `PFTEMP`, copy, map; no memory | `PgfaultAlloc`, `PgfaultCopy`, `PgfaultMap`; `PgfaultNoMemory` |
| `set_pgfault_handler`, `sys_exofork` | `SetHandler`, `Exofork` |
| `duppage`: child, then parent | `DupPage`, `DupSelf` |
| the child's exception stack, upcall and status | `ChildStack`, `Start` |
| `exit` | `Exit` |

The stack is one of the private addresses, so that fork itself writes to pages
it is giving away. A free page is cleared when it becomes free and the lowest
free page is taken, which nobody can tell from what `page_alloc` does. An
environment that has exited does not come back under the same name.

### Raid2

`disks` is the chain of groups of seven disks from `origin_raid2_disk` on, each
with its dirty flag, `now` and data as the set of the rows that hold a 1.
`Raid2Add` is the whole loop of `sys_raid2_add` with `Hamming` and
`disk_alloc`; `ChangeDisk` and `ChangeBit` are the two halves of
`sys_raid2_change`; `Raid2Check` repairs as `sys_raid2_check` does and leaves
the printing out. The arguments are those that stay on disks of the chain. A
shift by 32 is undefined in C and a shift by 0 on this processor. `added` and
`damage` record what the properties speak about.

## 3. What is checked

| run | instance | shows |
|---|---|---|
| `kernel_lock` | 3 CPUs, 13,905 states | type invariant, `MutualExclusion`, `NoLockPanic`, `BootCompletes`, and `ImplementsLock` (refinement, with its liveness) |
| `kernel_lib` | 2 CPUs, 3 slots, 2 generations, fairness; 148,555 states | the seven invariants of `Kernel`, `OnlyKilledRemotely`, `ZombieReaped`, and `ImplementsLives` (refinement) |
| `kernel_prio` | 1 CPU, 3 slots, priorities 0 and 1; 258,981 states | `HighestPriorityRuns`, `RoundRobin` |
| `kernel_starve` | 1 CPU, 3 slots | `StarvationFree` violated |
| `addr_lib` | 2 CPUs, 2 environments, 5 pages; about 26,000 states up to symmetry | the seven invariants of `AddrSpace`, `QuietWhileWaiting`, and `ImplementsSpaces` (refinement) |
| `pipe` | 1 CPU, 2 environments, 3 descriptors, a buffer of one byte; 496,707 states | `PipeCountedFirst`, `ClosedIsTrue`, `InOrder` |
| `pipe_race` | 2 CPUs | `HoldsBothEnds` violated |
| `pipe_eof` | 1 CPU | `AllReadAtEof` violated |
| `file_service` | a shell and a child it may kill, 2 descriptors, 2 open files, 4 file ids, fairness; 239,704 states | `ReplyHasTaker`, `Answered`, and `ImplementsFiles` (refinement) |
| `ipc_perm` | the same | `PermTellsPage` violated |
| `cow_fork` | 3 environments, a private, a shared and a read-only page each, 8 pages of memory; 90,172 states | `LegalFaults` and `ImplementsFork` (refinement) |
| `raid2` | disks of 2 bits, up to 2 groups, 2 changes; 82,301 states | `StoredRight`, `CheckRepairs` |

Bounds. Three CPUs let one spin while a second releases and a third acquires;
the lock code compares CPUs only for equality. Two CPUs and three slots give a
killer, a victim on the other CPU and a bystander to schedule; a slot is
reused, the free list goes from empty to full, and with `NGEN = 2` the
generation wraps at once. `kernel_lib` has one priority: the choice among
runnable environments does not matter to its invariants, which also hold with
two priorities (1.2 million states) and are proved for all. It matters to
`ImplementsLives`, which also holds on the instance of `kernel_prio` and is
proved for every set of priorities. Fairness among
environments needs two more of them than CPUs, or every one is chosen for want
of another: hence one CPU and three slots in `kernel_prio` and `kernel_starve`. `Kernel` and
`KernelLock` have no counters (`env_runs` is the flag "ever ran").

In `AddrSpace` two environments need a directory and a table each, which leaves
one data page of five to share: memory runs out between the two allocations of
one call, and pages are freed and used again as tables. Three addresses in two
tables are enough for a table that has a neighbour, one that does not exist,
and a move between tables. `REFMOD` is larger than any count the instance
reaches; the wrap of the 16-bit `pp_ref` at 65,536 mappings is not checked.
Pages are interchangeable, so symmetry among them is sound.

In `Pipe`, two environments are one that tests and one that changes the counts
meanwhile; three descriptors let an end be open twice, which `dup` needs. A
buffer of one byte is full and empty at every step, and `MaxBytes = 2` writes
wrap it around. Positions are not bounded to their 32 bits.

In `FileService` two clients are enough for a descriptor that is shared, for an
open or close of one while the other's request is under way, and for a client
that dies in the middle. Two entries of `opentab` are used up by one shell, so
that an entry is wanted while it is in use; four file ids make the ids of an
entry wrap after two opens, and the second of them is what 2^31 is in the code,
an id that `serve_open` takes for an error. A file of length 1 is read to its
end and past it. In `CowFork` the third environment makes a grandchild
of a page that is copy-on-write already; memory for eight pages runs out in the
handler and in `fork`. In `Raid2` a group holds 8 bits, calls of 3 and 5 bits
end at every column, and two changes make two dirty disks in a group; with
three the check does nothing.

Fairness. A CPU that can execute its next instruction does (`WF` of the steps
of `KernelLock`); which of the spinning CPUs wins the `xchg` is left open, and
`AbstractLock` promises only that some CPU wins. The local APIC timer of each
CPU fires periodically, so user code and `hlt` are interrupted. In `Kernel` the
timer is strongly fair (`SF` of `Yield` and `ReapZombie`): an environment that
traps all the time for other reasons leaves user mode again and again, but the
timer stays pending and is taken when it is back in user mode. This assumes
that a CPU that wants the lock gets it in the end, which the spinlock does not
promise to a particular CPU. No assumption is made about what programs do.
In `FileService` the server and each client that is in a library call make their
next step when they can (`WF`): both are runnable, and `RoundRobin` gives a
runnable environment the CPU when priorities are equal. Weak fairness is enough because the
server's `ipc_recv` stays open until some client's message arrives; that a
particular client's `ipc_send` is the one is not promised, which is why
`Answered` starts where the message has been taken.

Deadlock is not checked: the monitor stops the system by design, as does a
kernel panic.

The violations are disagreements of code and comments or tests:

* `sched_yield` promises round robin "starting just after the env this CPU was
  last running" (`kern/sched.c:18-20`), but an exit clears `curenv` and the
  next search starts at slot 0: slots that fork and exit for ever starve a
  higher one. `RoundRobin` states what is left: it holds once environments stop
  being freed.
* `_pipeisclosed` is right on one CPU, where a switch between the two reads
  shows in `env_runs`, and wrong on two, where the other environment needs no
  switch. `user/testpiperace2.c:34` says that who holds both ends never sees
  it. On one CPU it is wrong during a fork: descriptor pages have lower
  addresses than the pipe's, so `fork` maps them first, and the counts can be
  equal with both ends open. This is why `PipeCountedFirst` and `ClosedIsTrue`
  speak of states in which no child is unfinished.
* `devpipe_read` tests the buffer, then the counts. A writer that writes and
  closes in between makes it return 0 with bytes unread, where
  `user/testpipe.c:23-30` expects the whole message. One CPU is enough.
* `sys_ipc_try_send` writes `env_ipc_perm` only when it transfers a page, so the
  field keeps the value of an earlier message: "env_ipc_perm is set to 'perm' if
  a page was transferred, 0 otherwise" (`kern/syscall.c:350`). The file server
  relies on it to refuse a request without a page (`fs/serv.c:252`), and after
  its first request it no longer can.

Two further disagreements need a program that calls the kernel as nothing in
the repository does, which `LibSpec` leaves out; they were seen with `Spec`.
`sys_env_set_status` overwrites `ENV_RUNNING`, and the scheduler starts the
child a second time ("Never choose an environment that's currently running on
another CPU", `kern/sched.c:26`). `page_lookup` returns page 0 for an address
that is not mapped when its page table exists ("Return NULL if there is no page
mapped at va", `kern/pmap.c:520`), and `sys_page_map` then maps page 0; also
`page_remove` leaves the TLB alone (`kern/pmap.c:547`), which matters when a
parent changes the tables of a child that runs on another CPU.

## 4. What is proved

`KernelLockProofs`, `KernelProofs`, `AddrSpaceProofs`, `PipeProofs`,
`FileServiceProofs`, `CowForkProofs` and `Raid2Proofs` hold for every number of
CPUs, slots, generations, environments, descriptors, addresses, pages, open
files, file ids and RAID disks, every set of priorities and every size of the
pipe, of a file and of a disk; they use only the named assumptions
`KernelLockAssumption`, `KernelAssumption` (the boot CPU is a CPU, `None` is
no CPU or slot, at least two slots and two generations, priorities are
integers among which is 0), `AddrSpaceAssumption` (finitely many pages, indices
and environments, page 0 is not on the free list, addresses are pairs of
indices, `pp_ref` can count to 1), `PipeAssumption` (finitely many environments, at
least two descriptors and one byte of buffer), `FileAssumption` (finitely many
clients, the server is none of them, a descriptor and an entry of `opentab`, file
ids that wrap at a multiple of `MAXOPEN` after at least two rounds, reads of at
least a byte), `ForkAssumption` (finitely many
environments and addresses, a private address, and memory for the first
program), `RaidAssumption` (a disk has a bit, there are seven disks, and no call
adds nothing) and, of `AddrSpace`, `FileService` and `CowFork`, `NoneAssumption`
(`None` is no mapping; no call and no answer).

*Lock.* Mutual exclusion is not inductive: it does not say that the lock word
tells whether somebody is between the two `xchg`s. `IInv` adds `LockWord`,
`OwnerField` (the owner recorded in `cpu` is the CPU that has the lock, from
the write that sets it to the one that clears it; this is why `holding()` never
errs) and `Returns` (where the calls return, so that a CPU leaves `spin_lock`
only towards code that expects the lock). From it follow `TypeCorrect`,
`Exclusion`, `NeverPanics`, `HaltedMarkCorrect` (`CPU_HALTED` marks exactly
the CPUs that have to take the lock again), and `Refinement`: every step is
a step of `AbstractLock` or changes nothing there.

*Kernel.* `IInv` joins a consistency of the table (`Alive`, `Blocking`,
`FreeList`) with that of the CPUs (`CurrentMode`, `OneCpuPerEnv`,
`StatusTellsTheCpu`, `MonitorIsIdle`). The proof follows the code: `Handled`
says what a handler must leave behind for the scheduler; `EnvRunKeeps`,
`SchedHaltKeeps`, `SchedYieldKeeps` and `ResumeKeeps` show that every way out
of the kernel turns it into the invariant; one lemma per system call shows
that the handler leaves it behind. `Keeps` adds what a step may do to the
environments of the other CPUs, which gives `OnlyKilled`. Every invariant of
`kernel_lib` and its action property are theorems.

`Refinement` follows the same shape with the same invariant. `EnvRunLives`,
`GoesOn` and `YieldDispatches` say what the ways out of the kernel do to stages
and CPUs, and one lemma per handler finds its step of `AbstractEnvs`. Two things
are needed of the search in `sched_yield`: what it finds has the highest
priority (`BestIsTop`), and it finds something whenever an environment is
runnable (`BestExists`), so that a CPU does not become idle too early. The
second is an argument about the loop: after each slot there is a best one among
those seen (`Champion`), because priority and distance order the slots
strictly (`BeatsOrder`), and they do because the distances, taken modulo
`NENV`, differ (`DistanceDiffers`). `Blocking` is what makes `sys_ipc_try_send`
and `sys_env_set_status` wake only environments that wait or were not started.

*Address spaces.* `RefCountExact` is not inductive: `env_free` decrements every
page of an address space in turn, so one must know that no table is shared, and
`page_insert` may free a page, so one must know that it is not a table in use.
`Good` says of a memory and the directories: each directory and each table is
used once and for one thing (`Shape`), every count is exact (`Counted`), and the
pages without a reference are the free ones but for those just allocated
(`FreeBut`; inside a system call a page may be taken and not yet mapped). It is
proved of each function of `pmap.c`, then of their compositions: `AllocGood`,
`PutLeafGood`, `PutTableGood`, `WalkGood`, `RemoveGood`, `InsertGood`,
`SetupGood`, `EnvFreeGood`. Where the same page is inserted again the entry is
rewritten and the count stays; this is the case `SameLeafGood`, apart from the
others as in the code. `Slots` says who runs: nobody on two CPUs, and only
environments with an address space. Since the library changes an address space
only for the one that has it loaded, or for one that has not been started,
`FlushClean` finds every other TLB as it was. `Kinds` sums up what a step makes of the
address spaces; `WaitersAreQuiet` and `Refinement` are read off it.

Every theorem about `AddrSpace` assumes `[]NoWrap`: no `pp_ref` is at its
maximum. The theorems are false without it: a page mapped 65,536 times has a
`pp_ref` of 0, and only the number of mappings there is room for keeps a program
from that. `FewNeverWraps` says when there is no such room: then `NoWrap`
follows.

`LoopsFreeAll` is about the middle of a call, where `Inv` says nothing: after
each round of `env_free` the memory is still `Good`, and the entries visited so
far are gone and nothing else is (`Unmapping` for the inner loop, `Gone` for the
outer one). The first round after which this fails cannot exist (`Least`). A
table that has been emptied is in nobody's way (`DropShape`), and its one
reference is the entry of the directory, so that `page_decref` frees it. In the
end the tables are those `EnvFree` leaves, and since both memories are `Good`,
the counters and the free pages, which follow from the tables, are the same too
(`SameWiped`).

*Pipe.* Three invariants, over `Types`. `Order` says that the buffer holds the
bytes from `p_rpos` to `p_wpos - 1`, and for each place of `devpipe_read` and
`devpipe_write` what its caller knows of the positions; it stays true because
only the reader moves one and only the writer the other, and because two
positions less than the size apart differ modulo the size (`Mod`). From it
follow `TypeCorrect` and `BytesInOrder`. `PipeCountedFirst` is not inductive,
as it says nothing of single environments or of a child that is being made.
`Held` does: whoever has a descriptor has its data page, with the exceptions
between the two steps of `close` and `dup`; a child's missing data pages are
among those its parent has yet to copy, since they come after the descriptors.
An injection from references to descriptors into references to the pipe then
gives `CountedFirst`. `Measured` says that what an environment on the only CPU
has read is still so; with `CountedFirst` it gives `ClosedNotEarly`, under
the further assumption `NCPU = 1`, without which `pipe_race` refutes it.

*File service.* `ReplyHasTaker` is not inductive: it says where the client is
when the server replies, but not what it asked for, nor that what it asked for
still exists. `Inv` says three more things. `Table`: the id of an entry of
`opentab` is its index modulo `MAXOPEN`, which adding `MAXOPEN` keeps even when
the ids wrap (`NextId`), and an entry somebody has a descriptor of has a file
and the id that its `Fd` page shows. `Receiver` and `Place`: what a client relies
on, by where it is; one that waits is waiting for the request the server
works on (`Waiting`, `Busy`), and its request names an entry it holds itself, so
`openfile_lookup` refuses nobody who is alive (`EntryIs`). `Serving`: what the
server relies on at each of its places. The table changes under it while it
works, since other clients share, close and die; that `openfile_alloc` takes
only what nobody holds rests on `PageRefs` (a count of 1 or less is the
server's own mapping, or none), and that the entry is still free when the reply
is sent on `Fresh`. A client that dies leaves its request page to the server,
which finishes the request for nobody.

`Refinement` goes through the actions with the same invariant. The scan of
`opentab` and all but one message of each call change nothing that programs
see; the reply to an open that carries the `Fd` page is the step `Opened`, the
lookup of a read takes its range (`Taken`) and the addition to `fd_offset`
moves the position (`Moved`), unless the last descriptor went in between; the
request of a dead client comes to an end without an effect. The refinement is
one of safety: that an answer comes is `Answered`.

*Fork.* `ImplementsFork` itself says nothing of pages. `Inv` does: `Apart` (a
page is mapped at one address only, but for what `pgfault` leaves at `PFTEMP`),
`Together` (a shared address is the same page for all), and above all `Alone`:
who can write a private page is the only one to map it, except between the two
system calls of `duppage`, when the child that is just getting it maps it too. To
keep `Alone` one must know where every environment is: `Has` (what it maps of
its own; without a handler nothing of it is copy-on-write), `Handles` (the page
at `PFTEMP` is nobody else's until `pgfault` has mapped it, and holds the copy),
`Copies` (what `duppage` has done so far) and `Children` (each child is made by
one environment). `Sets` says once what a system call does to the mappings, and
the actions are proved from it. From `Inv` follow `TypeCorrect`, `NeverIllegal`
and `Refinement`: a write that reaches a page of another environment reaches
that of a child the writer is still making, which `AbstractFork` allows; all
of `pgfault` and the second half of `duppage` change nothing there.

*RAID-2.* `StoredRight` and `CheckRepairs` say what a reader finds, and nothing
of a row that is half written or of a dirty disk that is to be repaired. `Inv`
adds two things. `Shape`: after n bits the number of groups, the column and the
`now` of every data disk are functions of n (`Group`, `Place`, `Row`). `Known`:
for every row with parities there is a word of the code (`Word`) that holds the
bits that were added and that only dirty disks may have lost. A call of
`sys_raid2_add` is a loop over its bits. `AddShape`, `AddKnown` and `AddClean`
say what one turn of it keeps; `CallKeeps` puts the turns together, by taking
the first turn after which something fails, if there is one (`Least`: a set of
naturals has a least element). In the middle of a row the parities may be old,
and `InRow` carries the bits of the row instead. `SyndromeIs` is the Hamming
code: the syndrome of a row that differs from a word on at most one disk names
this disk, and is 0 if none does. `StoredIsRight` follows at once, and
`ChecksRepair` with a count of the dirty disks (`FewDirty`): with two of them and
a bit that reads back, only the other one can be named.

Only model-checked: everything about liveness (`BootCompletes`, the liveness of
`AbstractLock`, `ZombieReaped`, `RoundRobin`, `HighestPriorityRuns`,
`Answered`), which needs fairness and ENABLED; and the violations. Every
invariant and every action property that a passing run checks is a theorem.

## 5. Not modelled, and why

* **The earlier labs.** `lab1` to `lab5` are older states of the same files; a
  model of one would repeat parts of a model of `jos_extension`. They are most
  of the code of the repository, so the modelled part stays a small share of it.
* **Code without a protocol**: device drivers, firmware tables, the boot loader,
  `entrypgdir.c` (a table), formatting, strings, the monitor, debug symbols,
  `load_icode`, and the block layer under the file server, which reads a disk
  that nobody writes.
* **spawn and exec** with several segments, and what is left behind when they
  fail half way (`sys_exec` has changed its caller's registers and memory by
  then). `AddrSpace` has the one-page case.
* **`sys_env_set_trapframe`** and the memory it is given, for want of trap frames.
* **The console ring**, whose overflow makes a full buffer look empty.
* Shares of a page beyond 65,535, where the 16-bit `pp_ref` wraps; the disks
  beyond `nraid2_disks`, which `disk_alloc` does not check.

Worth doing next: `exec` of several segments, with trap frames in `Kernel`; the
console ring.
