---------------------------- MODULE KernelCalls ----------------------------
(***************************************************************************)
(* The kernel's half of the offloaded system calls (kernel/systemcall):    *)
(* which calls it turns away, the packet it sends for the others, and what *)
(* it makes of the reply.  A packet is the function type and the           *)
(* parameters in use.  The memory that getcwd and gethostbyname allocate   *)
(* for their results is taken as available, and so is the page that get_pa *)
(* allocates for a user address that has none.                             *)
(***************************************************************************)
EXTENDS Words

\* The physical address of an object.
get_pa(a) ==
    CASE a = Null -> Null
      [] a.in = "shared" -> Address("channel area", a.of)
      [] a.in \in {"kernel", "user"} -> Address("unikernel memory", a.of)

Rejected == [type |-> "none", param |-> <<>>]
Console == [type |-> "console", param |-> <<>>]

\* send_offload_message, if the arguments are valid.
Offload(valid, type, param) ==
    IF valid THEN [type |-> type, param |-> param] ELSE Rejected

-----------------------------------------------------------------------------
(* Files *)

sys_off_open(path, oflag, mode) ==
    Offload(path # Null, "open", <<get_pa(path), Qword(oflag), Qword(mode)>>)

sys_off_creat(path, mode) ==
    Offload(path # Null, "creat", <<get_pa(path), Qword(mode)>>)

sys_off_read(fd, buf, count) ==
    Offload(count # 0, "read", <<Qword(fd), get_pa(buf), count>>)

sys_off_write(fd, buf, count) ==
    Offload(count # 0, "write", <<Qword(fd), get_pa(buf), count>>)

sys_off_close(fd) == Offload(fd >= 3, "close", <<Qword(fd)>>)

\* Mutant: offset and whence change places.
sys_off_lseek_swapped(fd, offset, whence) ==
    Offload(fd >= 3, "lseek", <<Qword(fd), Qword(whence), Qword(offset)>>)

sys_off_lseek(fd, offset, whence) ==
    Offload(fd >= 3, "lseek", <<Qword(fd), Qword(offset), Qword(whence)>>)

sys_off_link(oldpath, newpath) ==
    Offload(TRUE, "link", <<get_pa(oldpath), get_pa(newpath)>>)

sys_off_unlink(path) == Offload(TRUE, "unlink", <<get_pa(path)>>)

sys_off_stat(pathname, buf) ==
    Offload(pathname # Null /\ buf # Null, "stat", <<get_pa(pathname), get_pa(buf)>>)

\* Without a buffer, getcwd allocates a page.
NewPage == Address("kernel", "new page")

sys3_off_getcwd(buf, size) ==
    Offload(buf # Null \/ size # 0, "getcwd",
            <<get_pa(IF buf = Null THEN NewPage ELSE buf), size>>)

sys3_off_system(command) == Offload(command # Null, "system", <<get_pa(command)>>)

sys_off_chdir(path) == Offload(path # Null, "chdir", <<get_pa(path)>>)

sys3_off_opendir(name) == Offload(name # Null, "opendir", <<get_pa(name)>>)

\* A directory stream is the proxy's own address, which the kernel hands back.
sys3_off_closedir(dirp) == Offload(dirp # Null, "closedir", <<dirp>>)

sys3_off_readdir(dirp) == Offload(dirp # Null, "readdir", <<dirp>>)

sys3_off_rewinddir(dirp) == Offload(dirp # Null, "rewinddir", <<dirp>>)

-----------------------------------------------------------------------------
(* Sockets *)

sys_off_gethostname(name, len) ==
    Offload(name # Null /\ len # 0, "gethostname", <<get_pa(name), len>>)

\* The parts of the one g_hp in which every gethostbyname has its result.
g_hp ==
    [i \in 1 .. 5 |->
        Address("kernel",
                <<"h_name", "h_aliases", "h_addrtype", "h_length", "h_addr">>[i])]

sys_off_gethostbyname(name) ==
    Offload(name # Null, "gethostbyname",
            <<get_pa(name), get_pa(g_hp[1]), get_pa(g_hp[2]), get_pa(g_hp[3]),
              get_pa(g_hp[4]), get_pa(g_hp[5])>>)

sys_off_getsockname(sockfd, addr, addrlen) ==
    Offload(addr # Null /\ addrlen # Null, "getsockname",
            <<Qword(sockfd), get_pa(addr), get_pa(addrlen)>>)

sys_off_socket(domain, type, protocol) ==
    Offload(TRUE, "socket", <<Qword(domain), Qword(type), Qword(protocol)>>)

sys_off_bind(sockfd, addr, addrlen) ==
    Offload(addr # Null, "bind", <<Qword(sockfd), get_pa(addr), Qword(addrlen)>>)

sys_off_listen(sockfd, backlog) ==
    Offload(TRUE, "listen", <<Qword(sockfd), Qword(backlog)>>)

sys_off_connect(sockfd, addr, addrlen) ==
    Offload(addr # Null, "connect", <<Qword(sockfd), get_pa(addr), Qword(addrlen)>>)

sys_off_accept(sockfd, addr, addrlen) ==
    Offload(addr # Null /\ addrlen # Null, "accept",
            <<Qword(sockfd), get_pa(addr), get_pa(addrlen)>>)

-----------------------------------------------------------------------------
\* The dispatcher, with the words p of the caller's registers.  The cases of
\* the other system calls are the operations of the other modules.
process_systemcall(no, p) ==
    CASE no = "read" -> sys_off_read(CInt(p[1]), p[2], p[3])
      [] no = "write" -> IF p[1] \in {1, 2} THEN Console
                         ELSE sys_off_write(CInt(p[1]), p[2], p[3])
      [] no = "open" -> sys_off_open(p[1], CInt(p[2]), CUint(p[3]))
      [] no = "creat" -> sys_off_creat(p[1], CUint(p[2]))
      [] no = "close" -> sys_off_close(CInt(p[1]))
      [] no = "lseek" -> sys_off_lseek(CInt(p[1]), CLong(p[2]), CInt(p[3]))
      [] no = "link" -> sys_off_link(p[1], p[2])
      [] no = "unlink" -> sys_off_unlink(p[1])
      [] no = "stat" -> sys_off_stat(p[1], p[2])
      [] no = "gethostname" -> sys_off_gethostname(p[1], p[2])
      [] no = "gethostbyname" -> sys_off_gethostbyname(p[1])
      [] no = "getsockname" -> sys_off_getsockname(CInt(p[1]), p[2], p[3])
      [] no = "socket" -> sys_off_socket(CInt(p[1]), CInt(p[2]), CInt(p[3]))
      [] no = "bind" -> sys_off_bind(CInt(p[1]), p[2], CUint(p[3]))
      [] no = "listen" -> sys_off_listen(CInt(p[1]), CInt(p[2]))
      [] no = "connect" -> sys_off_connect(CInt(p[1]), p[2], CUint(p[3]))
      [] no = "accept" -> sys_off_accept(CInt(p[1]), p[2], p[3])
      [] no = "getcwd" -> sys3_off_getcwd(p[1], p[2])
      [] no = "system" -> sys3_off_system(p[1])
      [] no = "chdir" -> sys_off_chdir(p[1])
      [] no = "opendir" -> sys3_off_opendir(p[1])
      [] no = "closedir" -> sys3_off_closedir(p[1])
      [] no = "readdir" -> sys3_off_readdir(p[1])
      [] no = "rewinddir" -> sys3_off_rewinddir(p[1])

\* The number that a call returns, from the word of the reply.
Returned(no, word) ==
    IF no \in {"read", "write", "lseek"} THEN CLong(word) ELSE CInt(word)

=============================================================================
