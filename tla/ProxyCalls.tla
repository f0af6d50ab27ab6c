----------------------------- MODULE ProxyCalls -----------------------------
(***************************************************************************)
(* The proxy's half of the offloaded system calls                          *)
(* (sideloader/offload_proxy): the function of the host's C library that a *)
(* worker calls for a packet, and with which arguments.                    *)
(***************************************************************************)
EXTENDS Words

\* Where the proxy has a physical address mapped.
get_va(pa) ==
    CASE pa = Null -> Null
      [] pa.in = "unikernel memory" -> Address("mapped memory", pa.of)
      [] pa.in = "channel area" -> Address("mapped channels", pa.of)

Host(function, argument) == [fun |-> function, arg |-> argument]
NoCall == Host("none", <<>>)      \* the reply is -1
Unknown == Host("unknown", <<>>)  \* there is no reply

-----------------------------------------------------------------------------
(* Files *)

sys_off_open(p) ==
    LET path == get_va(p[1])
        oflag == CInt(p[2])
        mode == CUint(p[3])
    IN  Host("open", IF mode = 0 THEN <<path, oflag>> ELSE <<path, oflag, mode>>)

sys_off_creat(p) == Host("creat", <<get_va(p[1]), CUint(p[2])>>)

\* The count passes through an int.
sys_off_read(p) == Host("read", <<CInt(p[1]), get_va(p[2]), Qword(CInt(p[3]))>>)

sys_off_write(p) == Host("write", <<CInt(p[1]), get_va(p[2]), Qword(CInt(p[3]))>>)

sys_off_close(p) == IF CInt(p[1]) > 2 THEN Host("close", <<CInt(p[1])>>) ELSE NoCall

sys_off_lseek(p) == Host("lseek", <<CInt(p[1]), CLong(p[2]), CInt(p[3])>>)

sys_off_link(p) == Host("link", <<get_va(p[1]), get_va(p[2])>>)

\* If access() finds the file; otherwise the call is taken to have succeeded.
sys_off_unlink(p) == Host("unlink", <<get_va(p[1])>>)

sys_off_stat(p) == Host("stat", <<get_va(p[1]), get_va(p[2])>>)

sys3_off_getcwd(p) == Host("getcwd", <<get_va(p[1]), p[2]>>)

sys3_off_system(p) == Host("system", <<get_va(p[1])>>)

sys_off_chdir(p) == Host("chdir", <<get_va(p[1])>>)

sys3_off_opendir(p) == Host("opendir", <<get_va(p[1])>>)

sys3_off_closedir(p) == Host("closedir", <<p[1]>>)

sys3_off_readdir(p) == Host("readdir", <<p[1]>>)

sys3_off_rewinddir(p) == Host("rewinddir", <<p[1]>>)

-----------------------------------------------------------------------------
(* Sockets *)

sys_off_gethostname(p) == Host("gethostname", <<get_va(p[1]), Qword(CInt(p[2]))>>)

\* The host's gethostbyname(name), and where its answer is copied to.
sys_off_gethostbyname(p) ==
    Host("gethostbyname", <<get_va(p[1]), get_va(p[2]), get_va(p[3]),
                            get_va(p[4]), get_va(p[5]), get_va(p[6])>>)

sys_off_getsockname(p) ==
    Host("getsockname", <<CInt(p[1]), get_va(p[2]), get_va(p[3])>>)

sys_off_socket(p) == Host("socket", <<CInt(p[1]), CInt(p[2]), CInt(p[3])>>)

sys_off_bind(p) == Host("bind", <<CInt(p[1]), get_va(p[2]), CUint(p[3])>>)

sys_off_listen(p) == Host("listen", <<CInt(p[1]), CInt(p[2])>>)

sys_off_connect(p) == Host("connect", <<CInt(p[1]), get_va(p[2]), CUint(p[3])>>)

sys_off_accept(p) == Host("accept", <<CInt(p[1]), get_va(p[2]), get_va(p[3])>>)

-----------------------------------------------------------------------------
\* The switch over the function type of a packet.
offload_local_proxy(type, p) ==
    CASE type = "read" -> sys_off_read(p)
      [] type = "write" -> sys_off_write(p)
      [] type = "lseek" -> sys_off_lseek(p)
      [] type = "open" -> sys_off_open(p)
      [] type = "creat" -> sys_off_creat(p)
      [] type = "close" -> sys_off_close(p)
      [] type = "link" -> sys_off_link(p)
      [] type = "unlink" -> sys_off_unlink(p)
      [] type = "gethostname" -> sys_off_gethostname(p)
      [] type = "gethostbyname" -> sys_off_gethostbyname(p)
      [] type = "getsockname" -> sys_off_getsockname(p)
      [] type = "socket" -> sys_off_socket(p)
      [] type = "bind" -> sys_off_bind(p)
      [] type = "listen" -> sys_off_listen(p)
      [] type = "connect" -> sys_off_connect(p)
      [] type = "accept" -> sys_off_accept(p)
      [] type = "stat" -> sys_off_stat(p)
      [] type = "getcwd" -> sys3_off_getcwd(p)
      [] type = "system" -> sys3_off_system(p)
      [] type = "chdir" -> sys_off_chdir(p)
      [] type = "opendir" -> sys3_off_opendir(p)
      [] type = "closedir" -> sys3_off_closedir(p)
      [] type = "readdir" -> sys3_off_readdir(p)
      [] type = "rewinddir" -> sys3_off_rewinddir(p)
      [] OTHER -> Unknown

=============================================================================
