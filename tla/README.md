# TLA+ models of the Pintos-KAIST VM and file system

This directory holds TLA+ models of `src/CS330. 운영체제/`, a Pintos-KAIST kernel with:

- demand-paged virtual memory (`vm/vm.c`, `vm/anon.c`, `vm/file.c`);
- a FAT-based file system (`filesys/inode.c`, `filesys/filesys.c`, with `fat.c` and `directory.c` outside the tree);
- the system calls that enter them (`userprog/syscall.c`).

`PROJECT.json` lists:

- the components and their status;
- every TLC run with its expected result;
- the mutants that show each checked property can fail;
- the map from each TLA+ definition to the C lines it translates;
- the findings;
- the hazards.

## 1. Inventory

### Components and their state

| Component | Code | State | Operations |
|---|---|---|---|
| Supplemental page table (SPT) | vm.c | per-process hash va -> `struct page` (operations/type, frame, writable, union uninit/anon/file) | `vm_alloc_page_with_initializer`, `spt_find_page`, `spt_insert_page`, `spt_remove_page`, `supplemental_page_table_kill`, `supplemental_page_table_copy` |
| Frame table | vm.c | global FIFO list of `struct frame {kva, page}`; user pool of physical pages | `vm_get_frame`, `vm_get_victim`, `vm_evict_frame`, `vm_do_claim_page`, `vm_claim_page` |
| Swap | anon.c | `swap_table`: list of `disk_sector {page, index}`; swap disk contents | `vm_anon_init`, `anon_initializer`, `anon_swap_in`, `anon_swap_out`, `anon_destroy` |
| File pages, mmap | file.c | `file_page {file, offset, read_bytes, zero_bytes}`; files' contents | `file_backed_init`, swap in/out, `write_back_if_dirty`, `file_backed_destroy`, `do_mmap`, `do_munmap` |
| Fault handler | vm.c | the pml4 of each process (hardware mapping and dirty bit) | `vm_try_handle_fault`, `vm_stack_growth` |
| Inode layer | inode.c | `open_inodes` registry; per inode `open_cnt`, `removed`, `deny_write_cnt`, on-disk `{start, length, is_dir, is_link}` | create, open, reopen, close, remove, read_at, write_at (growth), deny/allow_write, create_link |
| FS facade | filesys.c | per-thread working directory; directory entries | create, open, remove, mkdir, chdir, readdir, symlink, `get_working_dir` |
| FAT, directories | not in tree | FAT chain array; directory entry arrays | modelled from spec.md when needed |
| System calls | syscall.c | per-thread fd table; `file_lock` | argument validation and dispatch |

### How they interact

A user access to a missing page traps into `vm_try_handle_fault`. The handler then:

1. finds the SPT page;
2. gets a frame from `vm_get_frame`, which evicts the FIFO victim when the pool is empty;
3. calls `swap_in` through the page's operations, which loads the page from its swap slot, its file or nothing.

Eviction runs `swap_out` on a page that can belong to *any* process. Both mmap and lazy segments read files through the file system. munmap and exit destroy pages, which writes dirty file pages back. The FS facade resolves paths to directories and inodes. Inodes are reference-counted in a registry and own FAT chains.

### Behaviours that are hard to get right

For the hazards, each at the line where it bites, see `hazards` in PROJECT.json. In short:

- Eviction acts on another process's page while using the current process's pml4.
- `swap_out` can fail after the victim has already been unlinked.
- Frames of destroyed pages stay in the frame table.
- Swap slots are never released.
- A recycled frame is not zeroed.
- mmap can fail half-way.
- munmap's stop test reads a union member that belongs to another page type.
- File growth can fail half-way.
- Inode open and close counts can get out of balance on error and directory paths.
- Symlink recursion has no bound, and a link met in the middle of a path can be re-resolved forever.
- Directory removal closes the inode twice.
- fork copies loaded pages with a memcpy from a parent frame that may be gone, and drops the stack marker of the copies.
- A stack fault returns true without loading an existing but evicted stack page, so the access can re-fault forever.

## 2. Modules

### `UserMemory.tla`: the abstract specification

UserMemory states what paging promises a process. Its address space maps each page to its contents. A page changes only when:

- the process stores into it (`Store`); or
- the process remaps (`Remap`): pages appear with any contents, or disappear;
- the process is forked (`Fork`): a process in `Unborn` that has no address space yet (`born`) gets an exact copy of its parent's, and only then may it remap.

`lastStore` names the page of the last store. With it, a change that nobody stored is not mistaken for a store.

### `VM.tla`: the paging implementation (vm.c, anon.c, file.c)

State:

| Variable | Code |
|---|---|
| `spt[p][va]` | the `struct page`: type, target type, stack marker, writable, frame, swap slot, whether its file is still open |
| `ftable` | `frame_table` as a sequence of `[kva, page]` |
| `freeKvas` | the user pool |
| `fdata`, `sdata`, `fileData` | contents of frames, swap slots and file blocks, as members of `Values` |
| `swapTable` | `disk_sector.page` of each slot |
| `pml4`, `dirty` | the hardware mapping and dirty bit of each process |
| `status`, `grow` | process status (`unborn`, `fork` while its SPT is copied, `run`, `dying`, `exited`); the pending `vm_stack_growth` loop |
| `retry` | the access a process re-executes after `vm_try_handle_fault` returned true |
| `forkSrc`, `toCopy`, `copyVa` | the parent a child is copied from, the SPT entries still to copy, and the page whose memcpy is pending |
| `crash` | why the kernel faulted, if it did |
| `lastStore` | history variable for the refinement |

Actions:

- Each action is one handler run to its end: `AllocLazyAnon` (load_segment's `vm_alloc_page_with_initializer`), `Mmap`, `Store` (a user write), `Access` (a new trapping access, which runs `Fault`), `Retry`, `StackGrowthStep` (one iteration of the growth loop), `Munmap` and `Exit`.
- `Retry` is the re-execution of the faulting instruction after the handler returned true. It completes when the page is mapped and the access is permitted. Otherwise it runs `Fault` again, which does not count against `MaxAllocs` (`fresh` is FALSE).
- fork is `ForkStart` (the parent blocks, and `Blocked` keeps it from running), then one step per hash entry of `supplemental_page_table_copy`, in any order:
  - `CopyUninit` re-creates an uninit page with its aux reopened;
  - `CopyClaim` creates a loaded page again as a plain page of its type, so VM_MARKER_0 is lost, and claims it, which may evict;
  - `CopyData` is the memcpy, which reads both frames only then.
  - Then `CopyDone` wakes the parent.
- Other processes run between the copy steps. process_fork and __do_fork are not in this tree, so `ForkStart` and `Blocked` follow spec.md 4.11.
- A file page copied by fork passes through `file_backed_initializer`, which sets its file to NULL (`NoFile`). Its swap-out, swap-in and destroy then return at once, as file.c does.
- `Halted` is the stutter of a machine that has crashed, or whose processes have all exited.
- `Fault` takes the whole path: `vm_get_frame`, `vm_evict_frame`, the victim's `swap_out`, `vm_do_claim_page` and `swap_in`. The helpers `DoClaim` and `ClaimInto` are the code's call chain.
- The rsp heuristic of `vm_try_handle_fault` is a nondeterministic choice (`nearRsp`).
- `anon_swap_out` writes the victim out from its user address, read through the current process's pml4. When that process maps nothing there, the read faults inside the kernel (`NestedFault`). `vm_try_handle_fault` then runs for the current process:
  - with no page of its own at that address, the fault fails, and the model stops with `crash = "evict_fault"`;
  - with a page there, it claims that page, and `vm_get_frame` evicts from a table the victim has already left. If no victim is left, `ASSERT (frame != NULL)` fails (`"assert"`). If the first candidate is a frame with no page, the scan faults (`"scan_null"`).
  - A nested eviction that does find a victim, and a nested stack growth, are not followed. The model leaves those behaviours out.
- `ClaimFails` reads the claim's outcome after `vm_get_frame`, as vm.c:289 does. The eviction may have just unlinked the very page being claimed.
- Destroying a dirty, writable file page whose frame another process's eviction took (`StaleWriteBack`) reads `page->frame->kva` through NULL (file.c:25). `DestroyPages` stops the model there with `"wb_null"`.

Refinement:

- `UM == INSTANCE UserMemory WITH mem <- UserView, born <- ..., ...`. A process is born once its status is past `fork`.
- `UserView` is what each process would read at each mapped address. That is the mapped frame, else the linked frame, else the swap slot, else zero (stack and slotless anonymous pages), else the file block.
- `DataPreserved == UM!Spec` is checked as a PROPERTY.

C layout assumptions, from the pintos-kaist headers that are not in this tree:

- `uninit.h` puts `init` first.
- `anon.h` holds a single `disk_sector_t slot_index`.
- So the word `do_munmap` reads as `page->file.file` is:
  - `uninit.init` for an uninit page, which is NULL only for stack pages;
  - for an anonymous page, `slot_index` in its low half and the old `init` in its high half, so it is NULL only for a stack page in slot index 0.
- Freed memory is filled with 0xcc by `free`, so a freed page reads as carrying VM_MARKER_0 and the victim scan skips it.

### `MC_VM.tla`

This module extends VM with symmetry sets. Physical pages are interchangeable, and so are processes. `MCSymmetry` permutes both, for configurations in which every process is born.

### `MmapLayout.tla`: the byte arithmetic of mmap (file.c do_mmap, file_backed_init)

VM abstracts a file page to a block of a file. This module keeps the bytes: one process calls mmap with a length, a file length and an offset from small sets, then touches the pages of the region in any order, or unmaps it and maps again.

- Widths are scaled: a page is `PGSIZE = 4` bytes and `size_t` is `SizeBits = 6` bits. The wraps of `size_t` subtraction and of the round-up of `length` happen at 64 as they do at 2^64. `off_t` is signed, and its values stay far from its limits.
- `PagesFrom` is do_mmap's page loop (file.c:187-224) as a RECURSIVE operator over `read_bytes`, `zero_bytes` and the file offset. Its fuel, `MaxPages`, is the number of pages in the whole `size_t` range; it only matters if the counters wrap.
- `DoMmap` is the rest of do_mmap: the offset guard, the round-up of `length`, the clamp of `read_bytes` and the reset of `zero_bytes` when it is a multiple of PGSIZE.
- `MmapCall` is the system call. A zero length fails before do_mmap. Every other call opens a struct file with `file_reopen`, counted in `refs`.
- `Touch(i)` is the first fault on page i (`file_backed_init`):
  - a page that reads nothing fails, and the process is killed;
  - a page at a negative offset reads sector -1, and disk_read's assertion panics the kernel.
- `Unmap` is munmap of the whole region. It leaves `refs` alone, because neither do_munmap nor file_backed_destroy closes the file.

`SpecLayout` is the reference: the layout spec.md 4.10 describes, page i at `offset + (i-1)*PGSIZE`, computed directly rather than by a loop. `MmapAsSpecified` compares the two page by page; `SameLoad` ignores the offset of a page that reads nothing, which is never used. `MC_MmapLayout` gives lengths 0..12, 62 and 63 (near the wrap), file lengths 0..10 and offsets -4, 0, 2, 4 and 8.

### `FileSys.tla`: the file system (inode.c, filesys.c, the FS system calls)

Every file-system system call holds `file_lock` for its whole run (spec.md 5), so each call is one atomic action. The C functions are operators from a file-system record `f` to the next one. A handler composes them in the order the code calls them, so every open, close, allocation and free on every path of the handler is in the action. This includes the paths taken on failure.

State:

| Variable / field | Code |
|---|---|
| `fs.fat` | the FAT: next cluster, `EOC` or `FREE` |
| `fs.disk[s]` | the `inode_disk` at sector `s`: start, length, is_dir, is_link, linkpath |
| `fs.ents[d]` | the directory entries that the data of directory inode `d` holds (0 = not in use) |
| `fs.data[c]` | the contents of cluster `c`, abstracted to the set of inodes that wrote bytes into it (`{}` is zeroed) |
| `fs.reg[s]` | the `open_inodes` entry for sector `s`: `open_cnt`, `removed` and the in-memory `inode_disk`, or `NONE` |
| `fs.uaf` | history flag: an `inode_close` hit an inode already freed |
| `fs.crash` | the kernel panicked (an ASSERT), overflowed its stack, hung in a loop, or closed an uninitialised pointer |
| `pwd[p]` | the process's working directory (the inode it holds) |
| `fds[p][x]` | the inode of each open fd |

Operators and actions:

- **inode.c**:
  - `InodeCreate` (inode_create and inode_create_link), `InodeOpen`, `InodeReopen`, `InodeClose` and `InodeRemove`;
  - `InodeWriteAt`, with the growth of inode.c:335-360 and its two early returns, and the data loop (`WriteSectors`).
- **fat.c and directory.c**: these are not in the tree. `FatCreateChain` (first fit), `FatRemoveChain`, `DirLookup`, `DirAdd`, `DirRemove` and `DirEmpty` follow spec.md 4.1 and 4.3 and are marked spec_modelled.
- **get_working_dir**: the mutually recursive `GetWorkingDir` and `Walk` follow its loop token by token.
  - Symlinks are followed by the same recursion as the C code. `depth` counts the nested calls; past `MaxDepth` the kernel stack overflows.
  - `iter` counts the links the loop re-resolves. The loop's state is a directory and a token, so more than `LoopBound` re-resolutions means it has repeated a state and never ends.
- **Handlers**: `Create`, `Mkdir`, `Symlink` (sharing their core `MakeNode`), `Open` (the open system call over `FilesysOpen`), `Close`, `Write` (seek+write), `FsRemove` and `Chdir`.
- **Reads**: `ByteToSector` walks the FAT chain as byte_to_sector does, with its -1 results. `InodeReadAt` is inode_read_at's loop: the writers of the sectors it reads, and whether it handed disk_read sector -1.
- **Next**: syscall_handler's switch, one disjunct per handler, each guarded by `Live` (no crash yet). `Halted` is the stutter after a crash.

Assumptions for the code outside the tree:

- `dir_open` takes over the caller's inode reference, and `dir_close` is `inode_close`.
- `dir_get_pwd` reopens the working directory, and `dir_set_pwd` closes the old one.
- A directory's entries fit in one sector (`dir_create(sector, 16)`).
- `free` does not use `open_cnt` as a free-list link, so a second close of a freed inode corrupts memory without stopping the kernel. It is recorded in `uaf`.
- `MaxOpenCnt` bounds `open_cnt` so that leaked references leave a finite state space (`WithinBounds`).

### `MC_FileSys.tla`

This module gives the paths as records: absolute or relative, and a sequence of names. `MCPaths` has one- and two-name paths. `LinkPaths` adds "/a/a", which runs through a link named `a`. `MCUpPaths` adds "/" and "..", which the passing run leaves out (see `FS_root_removed`): with them `FS_main` passes, but takes close to four minutes. `MCWrites` are a one-byte write at offset 0 and a whole-sector write at offset 4, which grows a file by two sectors.

`MCReads` are whole-sector reads of the first two sectors, the reads `ReadReturnsWritten` looks at.

## 3. Runs

PROJECT.json records twelve runs: four passing runs, and eight violation runs for the findings that matter most. The other findings are reproduced by the further configurations at the end of this section.

### VM

The VM runs use `MC_VM` with:

- `Values = {0, 1}`: 0 is the zero page, and files start at 1;
- model values for `NULL` and `FREED`;
- `MaxAllocs`, which bounds the page-creating calls (lazy segments, mmaps, new stack-growth faults);
- `Unborn`, the processes that exist only as children of a fork (`{}` where no fork is checked);
- `MmapPages = 1..2`.

#### Passing runs

| Run | Bounds | Checks |
|---|---|---|
| `VM_refine` | 1 process, 3 pages (page 3 in the stack window), 2 frames, 3 slots, 3 allocs, `FairSpec` (154k states, about 1 minute) | TypeOK, SwapOwnership, MappingCoherent, FrameLinks; DataPreserved (refinement of UserMemory); FaultsComplete (liveness) |
| `VM_fork` | a parent and a child, 2 pages, 4 frames, 1 alloc, no stack window | DataPreserved through a fork |
| `VM_two` | 2 processes, 2 pages each (no stack window), 2 frames, 1 slot, 2 allocs, symmetry on frames and processes (130k states, 30 s) | FrameLinks under cross-process eviction |

- `VM_fork` has as many frames as pages can exist, so no eviction happens. With eviction between two processes, the cross-process bug of `VM_cross` breaks DataPreserved first and would hide the copy. What this run shows is that copying one hash entry at a time, with the parent blocked and other steps in between, gives the child its parent's memory.
- `VM_two` reaches cross-process eviction of file pages, where the evicting process clears its own mapping of a page that stays linked. That process's next fault there fails at the `page->frame` test (vm.c:289) and leaves a frame with no page in the table. Its mutant drops that test (`AlreadyLinkedUnchecked`), which no single-process run can reach. Eviction of another process's anonymous page ends in `NestedFault`.

These bounds are enough for eviction to need swap and for the FIFO to wrap:

- Two frames with three pages force eviction on every third fault.
- In `VM_refine`, the stack page makes the victim scan skip frames.
- Three slots are enough that swap never fills in the passing runs.

Each passing property has a mutant (PROJECT.json) that TLC catches under the run's own configuration.

#### Violation runs

Each checks one property, and each has a finding in PROJECT.json.

| Run | Property | What TLC shows |
|---|---|---|
| `VM_fork_swapped` | ForkCopySafe | with one physical page, the child's `vm_claim_page` evicts the parent's clean read-only file page being copied (its swap-out writes nothing), and the memcpy reads its NULL `src_page->frame` (vm.c:379). An anonymous parent page taken this way never reaches the memcpy: its swap-out faults first (`NestedFault`) |
| `VM_evict_dirty` | EvictionSafe | write-back through the frame pointer already cleared (file.c:25) |

ForkCopySafe also excludes the crash `fork_uaf`: fork's `file_reopen` of an uninit page's aux after a failed do_mmap closed that file (vm.c:347). `VM_fork_reopen` shows it.

### mmap layout

| Run | Property | What TLC shows |
|---|---|---|
| `MmapLayout` | MmapAsSpecified | mmap of length 1 at offset -4 of an empty file maps a page at file offset -4: the guard `offset % PGSIZE != 0 \|\| offset > file_length` lets negative offsets through (file.c:169). Touching it panics the kernel. |
| `MmapLayout_leak` | MmapReleasesFile | the struct file do_mmap reopens stays open after the call fails (file.c:170) and after munmap (file.c:231): nothing ever closes it, so each mmap keeps the inode's open_cnt one higher for good |

### File system

The FS runs use `MC_FileSys` with:

- one process and one fd;
- names `a` and `b`;
- five clusters of four bytes each: cluster 1 is the root inode and cluster 2 its entries;
- the paths of one and two names, and symlinks to "/a", so "/a/a" can run through a link to itself;
- `MaxDepth = 2`, `MaxOpenCnt = 3`, and files created empty.

Five clusters hold the root and three more inodes or data sectors. That is enough for three things:

- a file grows into a cluster freed by another file;
- growth runs out of space half-way;
- path resolution meets link depth, link loops, and two-name paths through a link.

#### Passing run

| Run | Checks |
|---|---|
| `FS_main` | TypeOK, HoldersCounted, ClustersExclusive (107k states, about 40 s) |

- **HoldersCounted**: every fd and working directory is counted in its inode's `open_cnt`. No close can free an inode while another holder still uses it. Leaked counts are allowed here; OpenCountsExact checks them.
- **ClustersExclusive**: no cluster is free under, or shared between, the inodes named from the root, a working directory or an fd.

Mutants (PROJECT.json):

| Mutated code | Change | Breaks |
|---|---|---|
| inode_reopen | without `open_cnt++` | HoldersCounted |
| inode_close | without the `removed` test | ClustersExclusive |
| inode_close | decrementing without releasing | TypeOK |

#### Violation runs

| Run | Property | What TLC shows |
|---|---|---|
| `FS_create_exists` | OpenCountsExact | creating an existing name leaves the new inode open in `open_inodes` (filesys.c:115) |
| `FS_link_hang` | NoResolutionHang | remove("/a/a") with a -> /a loops forever in get_working_dir (filesys.c:524) |
| `FS_rmdir_uaf` | NoUseAfterFree | removing an empty directory closes its inode twice (filesys.c:217, 228) |
| `FS_growth_stale` | ReadReturnsWritten | a read of a grown file's unwritten sector, through byte_to_sector and inode_read_at, returns a removed file's byte (inode.c:352) |

`FS_growth_stale` uses six clusters, so that growth by two sectors can reuse the freed one.

### Further configurations

Each of these checks one property of VM or FileSys. TLC finds the property violated by the trace described. The hazards in PROJECT.json that these properties would catch name the configuration in their note.

| Configuration | Property | What TLC shows |
|---|---|---|
| `VM_fork_livelock` | FaultsComplete | the child's copied stack page has lost VM_MARKER_0 (vm.c:375), so the parent's fault evicts it, and the swap-out clears the parent's own mapping of its stack page (anon.c:140). The parent's stack access then re-faults forever through vm_stack_growth, which skips the existing page (vm.c:254). It takes about 3 minutes. |
| `VM_mmap_closed` | NoKernelFault | a partial mmap leaves pages reading a closed file (file.c:209) |
| `VM_frame_leak` | FramesOwned | destroyed pages leave ownerless frames in frame_table (anon.c:162) |
| `VM_stack_zero` | FreshStackZeroed | a new stack page holds an evicted page's bytes (vm.c:192) |
| `VM_swap_full` | MappingCoherent | a failed anon_swap_out leaves the victim mapped (vm.c:171) |
| `VM_munmap_alias` | MunmapOnlyFilePages | munmap removes anonymous pages through a union member of another page type (file.c:241) |
| `VM_slot_leak` | SwapSlotsReclaimed | destroyed pages keep their swap slots (anon.c:153) |
| `FS_symlink_leak` | OpenCountsExact | a symlink never closes its parent directory (filesys.c:456) |
| `FS_inode_leak` | ClustersReclaimed | remove then close frees the data chain, never the inode's cluster (inode.c:250) |
| `FS_chdir_file` | PwdIsDirectory | chdir to a regular file succeeds (filesys.c:337) |
| `FS_mkdir_panic` | NoKernelPanic | mkdir under a missing directory hands NULL to dir_add (filesys.c:295) |
| `FS_link_overflow` | NoStackOverflow | a symlink cycle recurses without bound (filesys.c:521) |
| `FS_remove_uninit` | NoUninitClose | remove of "/x/y" with no /x closes an uninitialised pointer (filesys.c:228) |
| `FS_root_removed` | ClustersExclusive | with "/" and "..": create("/") fails at dir_add and leaves a removed file's record open at a freed cluster (filesys.c:115); mkdir("a") reuses the cluster and picks the record up, so chdir("a") enters a directory the kernel thinks is a file; remove("/a") removes it as a file, the root is left empty, and remove("..") frees the root's data cluster |
| `VM_cross` | MappingCoherent | eviction clears the wrong process's pml4 (anon.c:140) |
| `VM_fork_reopen` | ForkCopySafe | fork reopens the struct file of a lazy mmap page that a failed do_mmap already closed (vm.c:347) |
| `MmapLayout_pages` | MmapAsSpecified | mmap of 5 bytes of a 4-byte file maps one page instead of two: zero_bytes of 4 is reset to 0 (file.c:180) |
| `MmapLayout_tail` | MmapTouchSafe | touching the second page of a 6-byte mmap of a 1-byte file kills the process: its read of 0 bytes counts as failure (file.c:73), though spec.md 4.10 says it reads as zeros |

Run one with `tlc -config FS_chdir_file.cfg MC_FileSys` (or `MC_VM` for a VM configuration, `MC_MmapLayout` for a MmapLayout one).

## 4. Fairness and liveness

`FairSpec == Spec /\ Fairness` assumes weak fairness of `Retry(p)` and `StackGrowthStep(p)` for every process. Both are steps a process takes in the kernel, or as the next instruction, once it is on the CPU. Pintos's preemptive round-robin scheduler runs every ready thread again. User code is not assumed fair: a process may stop storing, mapping or calling.

`FaultsComplete` says that once the handler has returned true, the access eventually completes, unless the kernel crashes:

- it holds for one process (`VM_refine`), where the stack page keeps VM_MARKER_0 and is never evicted;
- it fails after a fork (`VM_fork_livelock`).

The file system needs no liveness property. Every FS handler is one atomic step under `file_lock`, and the two ways a call fails to return are checked as safety properties:

- unbounded recursion is the crash `overflow`;
- a loop that has repeated its state is the crash `hang`.

Deadlock is checked in every passing run. In VM, `Halted` allows stuttering only once the kernel has crashed, or every process has exited or was never forked. In FileSys it allows stuttering only after a crash; a live file system can always call close or open.

## 5. Not modelled

- In VM, byte-level contents, page offsets and `read_bytes`/`zero_bytes`. MmapLayout models them for one mapping, without eviction; VM models the pages as blocks.
- Preemption inside a handler. Each handler is one atomic step, although `frame_table` has no lock.
- The executable's loader and `setup_stack`.
- The initial stack page.
- fork's failure returns: the malloc of the aux, `file_reopen` and `vm_alloc_page_with_initializer` failing. The exit of a half-copied child is not modelled either.
- A forked uninit page gets its own copy of the file block (`fileData`), though parent and child read the same file. No property tells the two apart, because a lazy page reads its block only at its first fault.
- Kernel heap exhaustion (every `malloc` succeeds).
- `pml4_set_page` failure.
- A refinement of FileSys to an abstract tree of names. The create-of-an-existing-name bug (`FS_create_exists`) leaves a stale record in `open_inodes` at a freed cluster. A later mkdir that reuses the cluster opens that record, so the new directory is a file to the kernel: write to it succeeds, and remove treats it as a file (`FS_root_removed`). Within `FS_main`'s bounds the refinement would fail for this reason, and a refinement restricted to behaviours without that call would not check the code.
- Threads and fixed-point arithmetic. `thread.c` is not in the tree: `thread.h` only declares `struct thread` and the scheduler's functions, and the helpers of `fixed-point.h` have no caller in the tree. There is no code whose state changes could be translated.
- In the file system:
  - the bytes of files, beyond which inode wrote each sector;
  - the read system call as an action: it changes only the file position. `InodeReadAt` and `ByteToSector` are operators that `ReadReturnsWritten` applies to every open fd;
  - `deny_write` (used only by exec);
  - readdir's cursor, `isdir` and `inumber`. The cursor lives in `file.c`, which is not in the tree; `isdir` and `inumber` change no state. They index `fds[fd]` without a bounds check (a hazard in PROJECT.json);
  - directory growth beyond one sector;
  - names longer than one character, and the NAME_MAX checks;
  - the fd bounds checks of syscall.c (`is_invalid_fd`);
  - kernel heap exhaustion: every malloc and calloc in filesys.c succeeds;
  - processes other than one in the FS runs. The file lock serialises them, and a second process only adds a second working directory.
