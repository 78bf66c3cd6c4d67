------------------------------- MODULE Decode -------------------------------
(***************************************************************************)
(* What the decoder makes of one event: decode and what it calls           *)
(* (crates/syren-decode/src/lib.rs), the symbolic constants (consts.rs),   *)
(* and, through Flags, the flag arguments.  The table it looks the call up *)
(* in is the one the build generates from a syscall_64.tbl (SyscallTable). *)
(*                                                                         *)
(* A 64-bit register is a pair of signed 32-bit words, [hi, lo]; one that  *)
(* holds flags is the set of its bits, as in Flags.  A decimal number is   *)
(* shown as such a pair too, and whether its sign counts.  A symbolic      *)
(* constant is shown as its table and its value.                           *)
(***************************************************************************)
EXTENDS Flags, SyscallTable

CONSTANTS Tables,   \* the contents syscall_64.tbl may have
          NR,       \* the kernel's number of each call, as a register
          ArgsOf,   \* for each name, the registers it may be called with
          Rets,     \* the values a call may return
          Bytes,    \* what may be read at each address that is not NULL
          MAX_STR   \* bytes shown of a string or buffer (32)

\* A register that does not hold flags.
Register == [hi : Int, lo : Int]

ASSUME DecodeAssumption == MAX_STR \in Nat \ {0}

\* What the file gives each call of the 64-bit ABI is the kernel's number of it.
ASSUME TablesAssumption ==
    \A tbl \in Tables :
        /\ tbl \in Seq([number : Int, abi : STRING, name : STRING])
        /\ \A i, j \in Kept(tbl) : i # j => tbl[i].name # tbl[j].name
        /\ \A i \in Kept(tbl) : /\ tbl[i].name # "none" /\ tbl[i].name \in DOMAIN NR
                               /\ NR[tbl[i].name] = [hi |-> 0, lo |-> tbl[i].number]

ASSUME CallsAssumption ==
    /\ DOMAIN ArgsOf \subseteq DOMAIN NR
    /\ \A name \in DOMAIN NR : NR[name] \in Register
    /\ \A m, n \in DOMAIN NR : NR[m] = NR[n] => m = n
    /\ \A name \in DOMAIN ArgsOf : \A args \in ArgsOf[name] :
          \A i \in DOMAIN RenderArgs(name) :
              /\ i \in DOMAIN args
              /\ RenderArgs(name)[i].ty # "Flags" => args[i] \in Register
    /\ Rets \subseteq Int
    /\ Bytes \subseteq Seq(Nat)

VARIABLES file,      \* the syscall_64.tbl the table was built from
          SYSCALLS,  \* the generated table, empty until it is built
          ev,        \* the event decoded last
          decoded    \* its DecodedSyscall

decodeVars == <<file, SYSCALLS, ev, decoded, arg, shown>>

NULL == [hi |-> 0, lo |-> 0]
None == [as |-> "none"]

\* raw as i64, raw as u64, and raw as u32 as i32, as decimal numbers.
Dec(hi, lo, signed) == [as |-> "dec", hi |-> hi, lo |-> lo, signed |-> signed]
AsI64(r) == Dec(r.hi, r.lo, TRUE)
AsU64(r) == Dec(r.hi, r.lo, FALSE)
AsI32(r) == Dec(IF r.lo < 0 THEN -1 ELSE 0, r.lo, TRUE)

\* raw == n, and min(raw, n), for a small n.
Is(r, n) == r.hi = 0 /\ r.lo = n
MinU64(r, n) == IF r.hi = 0 /\ r.lo \in 0..n THEN r.lo ELSE n

-----------------------------------------------------------------------------
(* consts.rs.                                                              *)

Symbol(table, n) == [as |-> table, v |-> n]
SymbolIn(table, values, r) ==
    IF r.hi = 0 /\ r.lo \in values THEN Symbol(table, r.lo) ELSE None

AddressFamily(r) ==
    SymbolIn("AF", {0, 1, 2, 10, 15, 16, 17, 25, 27, 29, 31, 38, 40, 44}, r)

SOCK_NONBLOCK == 2048
SOCK_CLOEXEC == 524288
HasBit(n, bit) == (n \div bit) % 2 = 1

SocketFlags(n) == {bit \in {SOCK_CLOEXEC, SOCK_NONBLOCK} : HasBit(n, bit)}

\* socket_type: the type without the two flags, and the flags.
SocketType(r) ==
    LET flag(bit) == IF HasBit(r.lo, bit) THEN bit ELSE 0
        base == r.lo - flag(SOCK_CLOEXEC) - flag(SOCK_NONBLOCK)
    IN IF r.hi = 0 /\ r.lo >= 0 /\ base \in {1, 2, 3, 4, 5, 6, 10}
       THEN [as |-> "SOCK", v |-> base, flags |-> SocketFlags(r.lo)]
       ELSE None

\* protocol: only in the families whose protocols these are.
Protocol(family, r) ==
    IF family.hi = 0 /\ family.lo \in {0, 2, 10}
    THEN SymbolIn("IPPROTO", {0, 1, 2, 6, 17, 41, 58, 132, 136, 255}, r)
    ELSE None

SockoptLevel(r) == SymbolIn("SOL", {0, 1, 6, 17, 41, 58, 132, 255, 263, 270}, r)

\* sockopt_name, so_socket, so_tcp, so_ip and so_ipv6.
SockoptName(level, r) ==
    CASE Is(level, 1) -> SymbolIn("SO", (1..21) \cup {25}, r)
      [] Is(level, 6) -> SymbolIn("TCP", 1..13, r)
      [] Is(level, 0) -> SymbolIn("IP", {1, 2, 3, 4, 8, 10, 11, 14, 15} \cup (32..36), r)
      [] Is(level, 41) -> SymbolIn("IPV6", {16, 18, 20, 26, 49, 67}, r)
      [] OTHER -> None

\* consts::render: by the names of the call and of the argument.
ConstsRender(syscall, name, i, args) ==
    LET socket == syscall \in {"socket", "socketpair"}
        sockopt == syscall \in {"setsockopt", "getsockopt"}
    IN CASE socket /\ name = "family" -> AddressFamily(args[i])
         [] socket /\ name = "type" -> SocketType(args[i])
         [] socket /\ name = "protocol" -> Protocol(args[1], args[i])
         [] sockopt /\ name = "level" -> SockoptLevel(args[i])
         [] sockopt /\ name = "optname" -> SockoptName(args[2], args[i])
         [] name = "sig" /\ syscall \in {"kill", "tkill", "tgkill", "rt_sigaction",
                                        "rt_sigqueueinfo"} ->
               IF args[i].lo \in SIGNALS THEN Symbol("SIG", args[i].lo) ELSE None
         [] OTHER -> None

-----------------------------------------------------------------------------
(* render_arg.                                                             *)

Hex(r) == [as |-> "hex", reg |-> r]
PtrOrNull(r) == IF r = NULL THEN [as |-> "NULL"] ELSE Hex(r)

\* The first n bytes, or all if there are fewer.
Take(bytes, n) == SubSeq(bytes, 1, Min({n, Len(bytes)}))

\* quote_bytes: MAX_STR bytes at most, and a mark if there are more.
QuoteBytes(bytes) == [as |-> "str", bytes |-> Take(bytes, MAX_STR),
                      more |-> Len(bytes) > MAX_STR]

\* mem.read(addr, len): what can be read there, but no more than len.
MemRead(mem, len) == Take(mem, len)

\* read_cstr as PathString has it: the bytes before the NUL (0), or all of them.
ReadCstr(mem) ==
    LET nul == {i \in DOMAIN mem : mem[i] = 0}
    IN IF nul = {} THEN mem ELSE SubSeq(mem, 1, Min(nul) - 1)

\* Slip in render_fd: all 64 bits.
RenderFd_I64(r) == AsI64(r)

\* render_fd: the low 32 bits, signed.
RenderFd(r) == IF r.lo = -100 THEN Symbol("AT_FDCWD", -100) ELSE AsI32(r)

\* Slip in render_buf: the whole of the buffer, whatever the call was given.
BufBound_None(metas, i, args) == MAX_STR + 1

\* How much of a buffer is read: what the Size argument after it says.
BufBound(metas, i, args) ==
    IF i < Len(metas) /\ metas[i + 1].ty = "Size"
    THEN MinU64(args[i + 1], MAX_STR + 1) ELSE MAX_STR

\* render_buf.
RenderBuf(metas, i, args, mem) ==
    LET bytes == MemRead(mem, BufBound(metas, i, args))
    IN IF args[i] = NULL THEN PtrOrNull(NULL)
       ELSE IF bytes # <<>> THEN QuoteBytes(bytes) ELSE Hex(args[i])

\* render_sockopt_optval: a value of four bytes is shown as the i32 it is, here
\* the sequence of its bytes.
RenderSockoptOptval(args, mem) ==
    IF args[4] # NULL /\ Is(args[5], 4) /\ Len(MemRead(mem, 4)) = 4
    THEN [as |-> "i32", bytes |-> MemRead(mem, 4)]
    ELSE PtrOrNull(args[4])

\* flags::render knows the flags of these; any other is shown in hex.
FlagKind(syscall, name) ==
    CASE syscall \in {"open", "openat", "openat2"} /\ name = "flags" -> "open"
      [] syscall \in {"mmap", "mprotect", "pkey_mprotect"} /\ name = "prot" -> "prot"
      [] syscall = "mmap" /\ name = "flags" -> "map"
      [] OTHER -> "none"

RenderFlags(syscall, name, v) ==
    IF FlagKind(syscall, name) = "none" THEN Hex(v)
    ELSE [as |-> "flags", flags |-> Render(FlagKind(syscall, name), v)]

RenderByType(syscall, metas, i, args, mem) ==
    LET r == args[i]
        ty == metas[i].ty
    IN CASE ty = "Fd" -> RenderFd(r)
         [] ty = "Path" -> IF r = NULL \/ mem = <<>> THEN PtrOrNull(r)
                           ELSE QuoteBytes(ReadCstr(mem))
         [] ty = "Buf" -> RenderBuf(metas, i, args, mem)
         [] ty \in {"Size", "Uint"} -> AsU64(r)
         [] ty \in {"Int", "Offset"} -> AsI64(r)
         [] ty = "Hex" -> Hex(r)
         [] ty = "Flags" -> RenderFlags(syscall, metas[i].name, r)
         [] ty = "Ptr" -> PtrOrNull(r)

\* render_arg: symbolic constants first, then optval, then the type.
RenderOneArg(syscall, metas, i, args, mem) ==
    LET symbolic == ConstsRender(syscall, metas[i].name, i, args)
    IN IF symbolic # None THEN symbolic
       ELSE IF syscall = "setsockopt" /\ metas[i].name = "optval"
            THEN RenderSockoptOptval(args, mem)
            ELSE RenderByType(syscall, metas, i, args, mem)

DecodeTyped(syscall, metas, args, mem) ==
    [i \in DOMAIN metas |-> RenderOneArg(syscall, metas, i, args, mem)]

\* decode_raw: the registers up to the last that is not 0.
DecodeRaw(args) ==
    LET last == Max({0} \cup {i \in DOMAIN args : args[i] # NULL})
    IN [i \in 1..last |-> Hex(args[i])]

-----------------------------------------------------------------------------
(* decode.                                                                 *)

\* SyscallEvent::errno, 0 for None.
Errno(ret) == IF ret \in -4095..-1 THEN -ret ELSE 0

\* returns_hex
ReturnsHex(name) == name \in {"mmap", "mmap2", "brk", "mremap", "shmat"}

\* Slip: a call that returns an address never fails.
RetvalStr_HexFirst(name, ret, error) ==
    IF ReturnsHex(name) /\ ret # 0 THEN [as |-> "hex", v |-> ret]
    ELSE IF error # 0 THEN [as |-> "error", v |-> error]
         ELSE [as |-> "dec", v |-> ret]

\* retval_str.
RetvalStr(name, ret, error) ==
    IF error # 0 THEN [as |-> "error", v |-> error]
    ELSE IF ReturnsHex(name) /\ ret > 0
         THEN [as |-> "hex", v |-> ret]
         ELSE [as |-> "dec", v |-> ret]

\* Slip: the number cut to 32 bits.
Info_Low(nr) == SyscallByNumber(SYSCALLS, nr.lo)

\* SyscallEvent::info and syscall_name: a number of more than 32 bits is unknown.
Info(nr) == IF nr.hi = 0 THEN SyscallByNumber(SYSCALLS, nr.lo) ELSE NoInfo

\* decode: name, arguments, error and, as it will be shown, return value.
DecodeEvent(e) ==
    LET info == Info(e.nr)
        error == IF Errno(e.ret) \in ERRNOS THEN Errno(e.ret) ELSE 0
    IN [name |-> info.name,
        args |-> IF info.args # <<>>
                 THEN DecodeTyped(info.name, info.args, e.args, e.mem)
                 ELSE DecodeRaw(e.args),
        error |-> error,
        ret |-> RetvalStr(info.name, e.ret, error)]

\* The flag argument rendered last, for Flags.
LastFlags(info) ==
    {i \in DOMAIN info.args : /\ info.args[i].ty = "Flags"
                              /\ FlagKind(info.name, info.args[i].name) # "none"}

NoEvent == [nr |-> NULL, args |-> <<>>, ret |-> 0, mem |-> <<>>]

NothingDecoded == [name |-> "none", args |-> <<>>, error |-> 0, ret |-> None]

DecodeInit ==
    /\ Init
    /\ file = <<>> /\ SYSCALLS = <<>>
    /\ ev = NoEvent
    /\ decoded = NothingDecoded

\* build.rs: the table is generated once.
Build ==
    /\ SYSCALLS = <<>>
    /\ \E tbl \in Tables : file' = tbl /\ SYSCALLS' = Generate(tbl)
    /\ UNCHANGED <<ev, decoded, arg, shown>>

\* A call is reported and decoded.
DecodeOne(name, args, ret, mem) ==
    LET e == [nr |-> NR[name], args |-> args, ret |-> ret, mem |-> mem]
        info == Info(e.nr)
        flags == LastFlags(info)
    IN /\ ev' = e
       /\ decoded' = DecodeEvent(e)
       /\ IF flags # {}
          THEN RenderArg(FlagKind(info.name, info.args[Max(flags)].name), args[Max(flags)])
          ELSE RenderArg("prot", {})
       /\ UNCHANGED <<file, SYSCALLS>>

\* The event and what was made of it are dropped before the next event is awaited.
DropEvent ==
    /\ ev # NoEvent
    /\ ev' = NoEvent
    /\ decoded' = NothingDecoded
    /\ RenderArg("prot", {})
    /\ UNCHANGED <<file, SYSCALLS>>

DecodeNext ==
    \/ Build
    \/ DropEvent
    \/ /\ SYSCALLS # <<>> /\ ev = NoEvent
       /\ \E name \in DOMAIN ArgsOf : \E args \in ArgsOf[name], ret \in Rets, mem \in Bytes :
             DecodeOne(name, args, ret, mem)

DecodeSpec == DecodeInit /\ [][DecodeNext]_decodeVars

-----------------------------------------------------------------------------
(* Properties.                                                             *)

Decoded == ev # NoEvent
Metas == Info(ev.nr).args

\* The lines of the file that give a call of the 64-bit ABI its number.
Rows == {r \in {file[i] : i \in DOMAIN file} : r.number >= 0 /\ r.abi \in {"common", "64"}}

\* The table knows each call the file gives the 64-bit ABI, alone or with x32, by its
\* number and by its name, and an event is given the name of the line that has its
\* number, all 64 bits of it, and no name if no line has: in whatever order the
\* lines come, although the x32 lines repeat names under numbers of their own, and
\* although the number is searched for by bisection.
TableRight ==
    /\ \A r \in Rows : /\ SyscallByNumber(SYSCALLS, r.number).name = r.name
                       /\ SyscallByName(SYSCALLS, r.name).number = r.number
    /\ Decoded => {r.name : r \in {q \in Rows : ev.nr = [hi |-> 0, lo |-> q.number]}}
                     = {decoded.name} \ {"none"}

\* What the decoder takes for the value of an argument: of a descriptor, and of a
\* signal that has a name, the low half of the register; of any other argument
\* both halves, also of those the kernel itself cuts to an int, such as the pid of
\* kill or the family of a socket.
Matters(i, r) ==
    IF Metas[i].ty = "Fd" \/ (Metas[i].name = "sig" /\ r.lo \in SIGNALS)
    THEN <<r.lo>> ELSE <<r.hi, r.lo>>

\* Two registers are shown alike if and only if the decoder takes them for the same
\* value of the argument: no constant, flag of a socket type or sign is lost, and
\* "whether the caller zero- or sign-extended them" makes no difference to a
\* descriptor or a signal.  A signal without a name is the exception: it is shown
\* as all 64 bits.  Arguments that are shown by what they point to are left
\* out, and flags are the matter of Faithful.
ShownAlike ==
    Decoded => \A i \in DOMAIN Metas :
        Metas[i].ty \in {"Fd", "Int", "Uint", "Size", "Offset", "Hex"} =>
            \A r \in {a[i] : a \in ArgsOf[decoded.name]} :
                (RenderOneArg(decoded.name, Metas, i, [ev.args EXCEPT ![i] = r], ev.mem)
                    = decoded.args[i])
                <=> Matters(i, r) = Matters(i, ev.args[i])

\* A string shows bytes that are there, MAX_STR at most and none past the end the
\* call itself gave it, its NUL or its count; and it says so if there is more.
StringsEnd ==
    Decoded => \A i \in DOMAIN Metas : decoded.args[i].as = "str" =>
        LET s == decoded.args[i]
            end == IF Metas[i].ty = "Path"
                   THEN Min({k - 1 : k \in {n \in DOMAIN ev.mem : ev.mem[n] = 0}}
                             \cup {Len(ev.mem)})
                   ELSE MinU64(ev.args[i + 1], Len(ev.mem))
        IN /\ s.bytes = Take(ev.mem, Min({end, MAX_STR}))
           /\ s.more <=> end > MAX_STR

\* "Negative values in -4095..0 are -errno": a call that failed with an errno that
\* has a name is shown with it, whatever it returns when it succeeds, and any
\* other return value is shown as the number it is.
FailureNamed ==
    Decoded => IF -ev.ret \in ERRNOS
               THEN decoded.ret = [as |-> "error", v |-> -ev.ret]
               ELSE decoded.error = 0 /\ decoded.ret.v = ev.ret
=============================================================================
