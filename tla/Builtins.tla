------------------------------- MODULE Builtins -------------------------------
(***************************************************************************)
(* The builtin functions of RasCode, @name[...]: their numbers and         *)
(* registry (src/include/builtins.h, src/src/builtins.c) and the code that *)
(* codegen_builtin_call writes for them (src/src/codegen.c).  What a       *)
(* routine or system call does is not modelled: a call is the instruction  *)
(*   <<"native", name, registers it takes its arguments from, registers    *)
(*   it leaves overwritten>>                                               *)
(* and the question is whether the arguments are in these registers.       *)
(* A builtin is named as in the registry; the second entry "join", for     *)
(* strings, is called str_join and "indexOf" is called index.              *)
(***************************************************************************)
EXTENDS Integers, Sequences, SequencesExt

\* The enumeration BuiltinFunction: every block starts at a number of its own.
Blocks == <<
  <<0, <<"exit", "halt", "sleep", "clock", "panic">> >>,
  <<10, <<"addr", "peek", "poke", "memcpy", "memclr", "align", "alloc", "free", "realloc", "salloc", "memset", "memcmp",
          "mmap", "munmap", "mprotect", "heap_start", "heap_end", "heap_size", "page_size", "stack_ptr", "stack_size",
          "mfence", "lfence", "sfence">> >>,
  <<30, <<"cast", "to_int", "to_deci", "to_byte", "to_bool", "to_str">> >>,
  <<40, <<"fopen", "fread", "fwrite", "fseek", "fclose", "fdelete">> >>,
  <<50, <<"socket", "connect", "send", "recv", "bind", "listen", "accept", "close">> >>,
  <<60, <<"hash", "rand", "secure_zero", "entropy", "verify">> >>,
  <<70, <<"len", "type", "sizeof", "concat", "substr", "strcmp", "chr", "ord">> >>,
  <<80, <<"port_in", "port_out", "irq_enable", "irq_disable", "ioread", "iowrite">> >>,
  <<90, <<"spawn", "join", "pid", "kill">> >>,
  <<100, <<"build_time", "compiler_ver", "syscall", "import">> >>,
  <<110, <<"mutex_create", "mutex_lock", "mutex_unlock", "mutex_trylock", "mutex_destroy", "semaphore_create",
           "semaphore_wait", "semaphore_signal">> >>,
  <<120, <<"cond_create", "cond_wait", "cond_signal", "cond_broadcast", "", "atomic_cmp_swap", "atomic_increment",
           "atomic_decrement">> >>,
  <<130, <<"channel_create", "channel_send", "channel_recv", "channel_close", "channel_empty", "channel_full">> >>,
  <<140, <<"pool_create", "pool_submit", "pool_wait", "pool_destroy">> >>,
  <<150, <<"split", "str_join", "trim", "upper", "lower", "index", "replace", "startsWith", "endsWith", "reverse",
           "repeat", "pad">> >>,
  <<160, <<"isqrt", "pow", "abs", "min", "max", "clz", "ctz", "popcount", "gcd", "lcm", "isprime", "modpow", "sqrt",
           "floor", "ceil">> >>,
  <<170, <<"error", "get_error_code", "get_error_msg", "clear_error", "assert", "check_alloc", "try_syscall",
           "try_fopen", "log_error", "recover">> >>,
  <<180, <<"fork", "wait", "wait_any", "getpid", "getppid", "chdir", "getcwd", "getenv", "setenv", "unsetenv",
           "getenv_int", "setenv_int", "exec", "system_call", "getrlimit", "setrlimit", "thread_count">> >>,
  <<190, <<"rwlock_create", "rwlock_read", "rwlock_read_unlock", "rwlock_write", "rwlock_write_unlock",
           "barrier_create", "barrier_wait", "event_create", "event_signal", "event_wait", "event_reset">> >>,
  <<200, <<"srand", "rand_new", "rand_range", "rand_between", "time", "time_ms", "time_us", "year_from_time",
           "month_from_time", "day_from_time", "hour_from_time", "minute_from_time", "second_from_time", "strftime",
           "strptime", "day_of_week", "day_of_year", "is_leap_year", "days_in_month">> >>,
  <<210, <<"qsort", "bsearch", "search", "shuffle", "bubble_sort", "selection_sort", "insertion_sort", "find_min",
           "find_max", "find_min_idx", "find_max_idx", "count_val", "sum", "average">> >>,
  <<220, <<"vec_new", "vec_push", "vec_pop", "vec_get", "vec_set", "vec_len", "vec_cap", "vec_free", "vec_clear",
           "vec_resize">> >> >>

BlockOf(b) == CHOOSE i \in DOMAIN Blocks : \E j \in DOMAIN Blocks[i][2] : Blocks[i][2][j] = b
Number(b) == LET block == Blocks[BlockOf(b)] IN block[1] + SelectInSeq(block[2], LAMBDA n : n = b) - 1

\* The registry: the builtins that take at least none, one, two and three arguments.
Takes == <<
  {"halt", "clock", "heap_start", "heap_end", "heap_size", "page_size", "stack_ptr", "stack_size", "mfence", "lfence", "sfence",
   "entropy", "pid", "mutex_create", "cond_create", "get_error_code", "get_error_msg", "clear_error", "recover", "getpid",
   "getppid", "getcwd", "thread_count", "rwlock_create", "event_create", "build_time", "compiler_ver", "time", "time_ms",
   "time_us"},
  {"exit", "sleep", "panic", "addr", "peek", "alloc", "free", "salloc", "cast", "to_int", "to_deci", "to_byte", "to_bool",
   "to_str", "fclose", "fdelete", "accept", "close", "rand", "len", "sizeof", "chr", "ord", "port_in", "irq_enable",
   "irq_disable", "ioread", "join", "kill", "mutex_lock", "mutex_unlock", "mutex_trylock", "mutex_destroy",
   "semaphore_create", "semaphore_wait", "semaphore_signal", "cond_signal", "cond_broadcast", "atomic_increment",
   "atomic_decrement", "channel_create", "channel_recv", "channel_close", "channel_empty", "channel_full", "pool_create",
   "pool_wait", "pool_destroy", "trim", "upper", "lower", "reverse", "isqrt", "abs", "clz", "ctz", "popcount", "isprime",
   "sqrt", "floor", "ceil", "error", "check_alloc", "try_syscall", "log_error", "fork", "wait", "wait_any", "chdir",
   "getenv", "unsetenv", "getenv_int", "system_call", "getrlimit", "rwlock_read", "rwlock_read_unlock", "rwlock_write",
   "rwlock_write_unlock", "barrier_create", "barrier_wait", "event_signal", "event_wait", "event_reset", "syscall",
   "import", "srand", "rand_new", "year_from_time", "month_from_time", "day_from_time", "hour_from_time",
   "minute_from_time", "second_from_time", "day_of_week", "day_of_year", "is_leap_year", "vec_pop", "vec_len", "vec_cap",
   "vec_free", "vec_clear"},
  {"poke", "memclr", "align", "realloc", "munmap", "fopen", "fseek", "socket", "listen", "hash", "secure_zero", "concat",
   "strcmp", "port_out", "iowrite", "spawn", "cond_wait", "channel_send", "split", "str_join", "index", "startsWith",
   "endsWith", "repeat", "pow", "min", "max", "gcd", "lcm", "assert", "try_fopen", "setenv", "setenv_int", "exec",
   "setrlimit", "rand_range", "rand_between", "strftime", "strptime", "days_in_month", "search", "shuffle", "find_min",
   "find_max", "find_min_idx", "find_max_idx", "count_val", "sum", "average", "vec_new", "vec_push", "vec_get",
   "vec_resize"},
  {"memcpy", "memset", "memcmp", "mmap", "mprotect", "fread", "fwrite", "connect", "send", "recv", "bind", "verify",
   "substr", "atomic_cmp_swap", "pool_submit", "replace", "pad", "modpow", "qsort", "bsearch", "bubble_sort",
   "selection_sort", "insertion_sort", "vec_set"} >>

\* A name is looked up in the order of the registry, where "join" stands twice.
Lookup(b) == IF b = "str_join" THEN "join" ELSE b

\* The category is computed from the number alone; MATH takes the numbers of
\* ERROR, and PROCESS those of ADVANCED_PROCESS.
Bounds == << <<10, "system">>, <<30, "memory">>, <<40, "conversion">>, <<50, "file">>, <<60, "network">>, <<70, "security">>,
             <<80, "conversion">>, <<90, "hardware">>, <<100, "process">>, <<110, "meta">>, <<130, "sync">>, <<140, "channel">>,
             <<150, "threadpool">>, <<160, "string">>, <<180, "math">>, <<190, "process">>, <<200, "concurrency">>,
             <<210, "time">>, <<220, "sorting">>, <<230, "vector">> >>
Category(n) == Bounds[SelectInSeq(Bounds, LAMBDA bound : n < bound[1])][2]

-----------------------------------------------------------------------------
\* Pieces of code: argument i is evaluated, and what is in rax goes to r.

A(args, i) == IF i <= Len(args) THEN << <<"expr", args[i]>> >> ELSE << <<"become", [crash |-> TRUE]>> >>
Into(r) == << <<"mov", r, "rax">> >>
PushRax == << <<"push", "rax">> >>
PopTo(r) == << <<"pop", r>> >>
ArgRegs == <<"rdi", "rsi", "rdx", "rcx">>
CallerSaved == {"rcx", "rdx", "rsi", "rdi", "r8", "r9", "r10", "x0", "x1", "x2", "x3", "x4", "x5"}
Native(b, regs, lost) == << <<"native", b, regs, lost>> >>

\* n arguments, one after another into the registers of a call.
PlaceArgs(args, n) == FlattenSeq([i \in 1 .. n |-> A(args, i) \o Into(ArgRegs[i])])
CallOf(b, args, n) == PlaceArgs(args, n) \o Native(b, SubSeq(ArgRegs, 1, n), CallerSaved)
Inline(b, args, n, lost) == PlaceArgs(args, n) \o Native(b, SubSeq(ArgRegs, 1, n), lost)

SystemCode(b, args) ==
    CASE b = "exit" -> A(args, 1) \o Into("rdi") \o << <<"exit">> >>
      [] b = "halt" -> << <<"hlt">> >>
      [] b = "sleep" -> A(args, 1) \o Native(b, <<"rax">>, {"rbx", "rdi", "rsi"})
      [] b = "clock" -> Native(b, <<>>, {"rbx", "rcx", "rdx", "rsi", "rdi"})
      [] b = "panic" -> A(args, 1) \o Into("rsi") \o << <<"print", "panic">>, <<"exit">> >>

\* @realloc pops one word more than it has pushed.
HeapBuiltins == {"addr", "peek", "poke", "memcpy", "memclr", "alloc", "free", "realloc"}
MemoryCode(b, args) ==
    CASE b = "addr" -> IF args[1].t = "id" THEN << <<"addr", args[1]>> >> ELSE <<>>
      [] b = "peek" -> A(args, 1) \o Into("rcx") \o Native(b, <<"rcx">>, {})
      [] b = "poke" -> A(args, 1) \o Into("rcx") \o A(args, 2) \o Native(b, <<"rcx", "rax">>, {})
      [] b = "memcpy" -> A(args, 2) \o Into("rsi") \o A(args, 1) \o Into("rdi") \o A(args, 3) \o Into("rcx")
                           \o Native(b, <<"rdi", "rsi", "rcx">>, {"rdi", "rsi", "rcx"})
      [] b = "memclr" -> A(args, 1) \o PushRax \o A(args, 2) \o Into("rcx") \o PopTo("rdi") \o Native(b, <<"rdi", "rcx">>, {"rdi", "rcx"})
      [] b = "alloc" -> Inline(b, args, 1, {"rdi", "rbx"})
      [] b = "free" -> Inline(b, args, 1, {"rdi"})
      [] b = "realloc" -> A(args, 1) \o Into("rbx") \o A(args, 2) \o Into("rcx")
                            \o Native(b, <<"rbx", "rcx">>, CallerSaved) \o << <<"rsp", 8>> >>

\* @salloc moves the stack pointer; @mmap loses its first argument.
AreaCode(b, args) ==
    CASE b = "salloc" -> A(args, 1) \o Into("rsi") \o << <<"alu", "sub", "rsp", "rsi">>, <<"mov", "rax", "rsp">> >>
      [] b = "memset" -> A(args, 1) \o PushRax \o A(args, 2) \o PushRax \o A(args, 3) \o Into("rcx") \o PopTo("rax") \o PopTo("rdi")
                           \o Native(b, <<"rdi", "rax", "rcx">>, {"rdi", "rcx"})
      [] b = "memcmp" -> A(args, 1) \o PushRax \o A(args, 2) \o PushRax \o A(args, 3) \o Into("rcx") \o PopTo("rsi") \o PopTo("rdi")
                           \o Native(b, <<"rdi", "rsi", "rcx">>, {"rdi", "rsi", "rcx"})
      [] b = "mmap" -> A(args, 1) \o << <<"mov", "rax", "rdi">> >> \o A(args, 2) \o Into("rsi") \o A(args, 3) \o Into("rdx")
                         \o Native(b, <<"rdi", "rsi", "rdx">>, {"rdi", "rcx", "r8", "r9", "r10"})
      [] b = "munmap" -> Inline(b, args, 2, {"rcx"})
      [] b = "mprotect" -> CallOf(b, args, 3)
      [] b \in {"heap_start", "heap_end", "heap_size"} -> Native(b, <<>>, {"rdi", "rbx", "rcx", "r8"})
      [] b \in {"stack_ptr", "stack_size", "page_size", "mfence", "lfence", "sfence"} -> Native(b, <<>>, {})

ConversionCode(b, args) ==
    CASE b \in {"to_int", "to_deci", "to_byte", "to_bool", "to_str"} ->
           << <<"expr", [t |-> "cast", to |-> CASE b = "to_int" -> "int" [] b = "to_deci" -> "deci" [] b = "to_byte" -> "byte"
                                                [] b = "to_bool" -> "bool" [] OTHER -> "str", e |-> args[1]]>> >>
      [] b = "type" -> CallOf(b, args, 1)
      [] b = "sizeof" -> << <<"sizeof", args[1]>> >>
      [] b = "len" -> Inline(b, args, 1, {"rcx"})
      [] b = "concat" -> A(args, 1) \o Into("r12") \o A(args, 2) \o Into("r13")
                           \o Native(b, <<"r12", "r13">>, {"rbx", "rcx", "rdi", "rsi"})
      [] b = "substr" -> A(args, 1) \o PushRax \o A(args, 3) \o PushRax \o Native("malloc", <<"rax">>, {"rbx", "rcx"}) \o Into("rdi")
                           \o PopTo("rdx") \o PopTo("rsi") \o A(args, 2) \o Native(b, <<"rsi", "rax", "rdx">>, {"rsi", "rcx", "rdi"})
      [] b = "strcmp" -> CallOf(b, args, 2)
      [] b \in {"chr", "ord"} -> A(args, 1) \o << <<"alui", "and", "rax", 255>> >>

\* The number of the call goes to r9, the others into the registers of a system call.
MetaCode(b, args) ==
    CASE b \in {"build_time", "compiler_ver"} -> Native(b, <<>>, {})
      [] b = "syscall" ->
           LET regs == <<"rdi", "rsi", "rdx", "r10", "r8">>
               others == SubSeq(args, 2, Len(args))
           IN  A(args, 1) \o Into("r9")
                 \o FlattenSeq([i \in DOMAIN others |-> << <<"expr", others[i]>> >> \o (IF i < 6 THEN Into(regs[i]) ELSE <<>>)])
                 \o << <<"mov", "rax", "r9">> >>
                 \o Native(b, <<"rax">> \o SubSeq(regs, 1, IF Len(others) < 5 THEN Len(others) ELSE 5), {"rcx"})
      [] b = "verify" -> << <<"imm", "rax", 0>> >>

SecurityCode(b, args) ==
    CASE b = "hash" -> A(args, 2) \o Into("rcx") \o A(args, 1) \o Into("rdi")
                         \o Native(b, <<"rdi", "rcx">>, {"rbx", "rcx", "rdi", "r8", "r9", "r10"})
      [] b = "rand" -> Inline(b, args, 1, {"rsi", "rdx", "rcx"})
      [] b = "secure_zero" -> A(args, 1) \o Into("rdi") \o A(args, 2) \o Into("rcx") \o Native(b, <<"rdi", "rcx">>, {"rdi", "rcx"})
      [] b = "entropy" -> Native(b, <<>>, {"rdi", "rcx"})
      [] b = "verify" -> A(args, 1) \o Into("rbx") \o A(args, 2) \o Into("rdi") \o A(args, 3) \o Into("rsi")
                           \o Native(b, <<"rbx", "rdi", "rsi">>, {"rcx", "rdi", "rsi"})

ProcessCode(b, args) ==
    CASE b = "spawn" -> A(args, 1) \o Into("rbx") \o A(args, 2) \o Into("rsi") \o Native(b, <<"rbx", "rsi">>, {"rdi", "rsi", "rcx"})
      [] b = "join" -> A(args, 1) \o Into("rbx") \o Native(b, <<"rbx">>, {"rdi", "rsi", "rdx", "r10", "rcx"})
      [] b = "pid" -> Native(b, <<>>, {"rcx"})
      [] b = "kill" -> Inline(b, args, 1, {"rsi", "rcx"})

CondWait(args) == A(args, 1) \o PushRax \o A(args, 2) \o Into("rsi") \o PopTo("rdi") \o Native("cond_wait", <<"rdi", "rsi">>, CallerSaved)

\* Vectors are handled in place; a call with too few arguments gives no code.
VectorNeeds == [vec_new |-> 2, vec_push |-> 2, vec_pop |-> 1, vec_get |-> 2, vec_set |-> 3, vec_len |-> 1, vec_cap |-> 1,
                vec_free |-> 1, vec_clear |-> 1, vec_resize |-> 2]
VectorCode(b, args) ==
    CASE Len(args) < VectorNeeds[b] -> IF b = "vec_new" THEN << <<"imm", "rax", 0>> >> ELSE <<>>
      [] b = "vec_new" -> A(args, 2) \o PushRax \o A(args, 1) \o PopTo("rcx") \o Native(b, <<"rax", "rcx">>, {"rcx", "rdi"})
      [] b = "vec_push" -> A(args, 2) \o PushRax \o A(args, 1) \o PopTo("rbx") \o Native(b, <<"rax", "rbx">>, {"rcx"})
      [] b \in {"vec_get", "vec_resize"} -> A(args, 2) \o Into("rcx") \o A(args, 1) \o Native(b, <<"rax", "rcx">>, {})
      [] b = "vec_set" -> A(args, 3) \o PushRax \o A(args, 2) \o Into("rcx") \o A(args, 1) \o PopTo("rbx")
                            \o Native(b, <<"rax", "rcx", "rbx">>, {})
      [] OTHER -> A(args, 1) \o Native(b, <<"rax">>, {"rcx", "rdi"})

-----------------------------------------------------------------------------
\* The routines of the runtime: how many arguments the code evaluates for each.
FileCalls == [fopen |-> 2, fread |-> 3, fwrite |-> 3, fseek |-> 2, fclose |-> 1, fdelete |-> 1]
HardwareCalls == [port_in |-> 1, port_out |-> 2, ioread |-> 1, iowrite |-> 2]
MetaCalls == [irq_enable |-> 0, irq_disable |-> 0]
NetworkCalls == [socket |-> 2, connect |-> 3, bind |-> 3, listen |-> 2, accept |-> 1, send |-> 3, recv |-> 3, close |-> 1]
StringCalls == [split |-> 2, str_join |-> 2, trim |-> 1, upper |-> 1, lower |-> 1, index |-> 2, replace |-> 3, startsWith |-> 2,
                endsWith |-> 2, reverse |-> 1, repeat |-> 2, pad |-> 3]
MathCalls == [isqrt |-> 1, pow |-> 2, abs |-> 1, min |-> 2, max |-> 2, clz |-> 1, ctz |-> 1, popcount |-> 1, gcd |-> 2, lcm |-> 2,
              isprime |-> 1, modpow |-> 3, sqrt |-> 1, floor |-> 1, ceil |-> 1]
ErrorCalls == [error |-> 2, get_error_code |-> 0, get_error_msg |-> 0, clear_error |-> 0, assert |-> 2, check_alloc |-> 2,
               try_syscall |-> 2, try_fopen |-> 2, log_error |-> 1, recover |-> 0]
AdvancedProcessCalls ==
    [fork |-> 0, wait |-> 1, wait_any |-> 0, getpid |-> 0, getppid |-> 0, chdir |-> 1, getcwd |-> 2, getenv |-> 1, setenv |-> 2,
     unsetenv |-> 1, getenv_int |-> 2, setenv_int |-> 2, exec |-> 2, system_call |-> 1, getrlimit |-> 1, setrlimit |-> 2,
     thread_count |-> 0]
ConcurrencyCalls ==
    [rwlock_create |-> 0, rwlock_read |-> 1, rwlock_read_unlock |-> 1, rwlock_write |-> 1, rwlock_write_unlock |-> 1,
     barrier_create |-> 1, barrier_wait |-> 1, event_create |-> 0, event_signal |-> 1, event_wait |-> 1, event_reset |-> 1]
TimeCalls ==
    [srand |-> 1, rand |-> 0, rand_range |-> 1, rand_between |-> 2, time |-> 0, time_ms |-> 0, time_us |-> 0, year_from_time |-> 1,
     month_from_time |-> 1, day_from_time |-> 1, hour_from_time |-> 1, minute_from_time |-> 1, second_from_time |-> 1,
     strftime |-> 3, strptime |-> 2, day_of_week |-> 1, day_of_year |-> 1, is_leap_year |-> 1, days_in_month |-> 2]
SortingCalls ==
    [qsort |-> 3, bsearch |-> 4, search |-> 3, shuffle |-> 2, bubble_sort |-> 2, selection_sort |-> 2, insertion_sort |-> 2,
     find_min |-> 2, find_max |-> 2, find_min_idx |-> 2, find_max_idx |-> 2, count_val |-> 3, sum |-> 2, average |-> 2]
SyncCalls == [mutex_create |-> 0, mutex_lock |-> 1, mutex_unlock |-> 1, mutex_trylock |-> 1, mutex_destroy |-> 1,
              semaphore_create |-> 1, semaphore_wait |-> 1, semaphore_signal |-> 1, cond_create |-> 0, cond_signal |-> 1,
              cond_broadcast |-> 1, atomic_cmp_swap |-> 3, atomic_increment |-> 1, atomic_decrement |-> 1]
ChannelCalls == [channel_create |-> 1, channel_send |-> 2, channel_recv |-> 1, channel_close |-> 1, channel_empty |-> 1,
                 channel_full |-> 1]
PoolCalls == [pool_create |-> 1, pool_submit |-> 3, pool_wait |-> 1, pool_destroy |-> 1]

Calls(c) == CASE c = "file" -> FileCalls [] c = "hardware" -> HardwareCalls [] c = "meta" -> MetaCalls
              [] c = "network" -> NetworkCalls [] c = "string" -> StringCalls [] c = "math" -> MathCalls
              [] c = "error" -> ErrorCalls [] c = "advanced process" -> AdvancedProcessCalls
              [] c = "concurrency" -> ConcurrencyCalls [] c = "time" -> TimeCalls [] c = "sorting" -> SortingCalls
              [] c = "sync" -> SyncCalls [] c = "channel" -> ChannelCalls [] c = "threadpool" -> PoolCalls
              [] OTHER -> <<>>

\* The builtins that the switch of a category handles with code of its own.
OwnCode(c) == CASE c = "system" -> ToSet(Blocks[1][2])
                [] c = "memory" -> ToSet(Blocks[2][2]) \ {"align"}
                [] c = "conversion" -> ToSet(Blocks[3][2] \o Blocks[7][2]) \ {"cast"}
                [] c = "meta" -> {"build_time", "compiler_ver", "syscall", "verify"}
                [] c = "security" -> ToSet(Blocks[6][2])
                [] c = "process" -> ToSet(Blocks[9][2])
                [] c = "sync" -> {"cond_wait"}
                [] c = "vector" -> DOMAIN VectorNeeds
                [] OTHER -> {}

CodeIn(c, b, args) ==
    CASE b \in DOMAIN Calls(c) -> CallOf(b, args, Calls(c)[b])
      [] c = "system" -> SystemCode(b, args)
      [] c = "memory" -> IF b \in HeapBuiltins THEN MemoryCode(b, args) ELSE AreaCode(b, args)
      [] c = "conversion" -> ConversionCode(b, args)
      [] c = "meta" -> MetaCode(b, args)
      [] c = "security" -> SecurityCode(b, args)
      [] c = "process" -> ProcessCode(b, args)
      [] c = "sync" -> CondWait(args)
      [] OTHER -> VectorCode(b, args)

\* The switch of the category finds the builtin by its number, whoever else has it.
Dispatched(b) == {d \in DOMAIN Calls(Category(Number(b))) \cup OwnCode(Category(Number(b))) : Number(d) = Number(b)}

BuiltinCall(b, args) ==
    IF Dispatched(Lookup(b)) = {} THEN (IF Category(Number(Lookup(b))) = "network" THEN <<>> ELSE << <<"imm", "rax", 0>> >>)
    ELSE CodeIn(Category(Number(Lookup(b))), CHOOSE d \in Dispatched(Lookup(b)) : TRUE, args)
==============================================================================
