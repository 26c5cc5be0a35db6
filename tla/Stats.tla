------------------------------- MODULE Stats -------------------------------
(***************************************************************************)
(* What agent11 computes from the counters of the kernel (agent11/proc.go, *)
(* net.go, disk.go): percentages of the ticks since the last reading,      *)
(* packets and disk operations since the last reading, load averages.      *)
(*                                                                         *)
(* A reading is what each counter advanced by since the one before.        *)
(***************************************************************************)
EXTENDS Integers, FiniteSets, FiniteSetsExt

\* What int() makes of floats that no int is near to.
Largest == 1000
Smallest == -1000

\* The fields of a cpu line of /proc/stat.
CpuFields == {"user", "nice", "system", "idle", "iowait", "irq", "softirq",
              "steal", "guest", "guestNice"}

\* Ticks of the kernel: time in a guest is also counted as user or nice time, and
\* iowait may go back (see proc(5), that compute() refers to).
TickOf(kind) ==
    [f \in CpuFields |->
        CASE f = kind -> 1
          [] kind = "guest" /\ f = "user" -> 1
          [] kind = "guestNice" /\ f = "nice" -> 1
          [] kind = "iowaitBack" /\ f = "iowait" -> -1
          [] OTHER -> 0]

TickKinds == CpuFields \cup {"iowaitBack"}

Plus(r, s) == [f \in CpuFields |-> r[f] + s[f]]
NoTicks == [f \in CpuFields |-> 0]

WentBack(r) == \E f \in CpuFields : r[f] < 0

\* reading.total, of which user and nice already have the guests.
AllTicks(r) ==
    r.user + r.nice + r.system + r.idle + r.iowait + r.irq + r.softirq + r.steal
        + r.guest + r.guestNice

\* v(): a counter that went back counts as 0.  Without any tick the division is
\* by zero, and int() of the result depends on the processor of the agent.
Percents(delta, r) ==
    LET total == AllTicks(r) IN
    CASE delta < 0 -> {0}
      [] delta >= 0 /\ total > 0 -> {(100 * delta) \div total}
      [] delta >= 0 /\ total < 0 -> {-((100 * delta) \div (-total))}
      [] delta = 0 /\ total = 0 -> {Smallest, 0}
      [] delta > 0 /\ total = 0 -> {Smallest, Largest}

UserTicks(r) == r.user + r.nice

\* What each metric adds up before it is divided.
CpuParts(r) == {UserTicks(r), r.system, r.idle, r.iowait, r.irq + r.softirq, r.steal}

OutOf100(v) == [val |-> v, max |-> 100]

\* The metrics of one cpu line; nonIdle is a sum of percentages.
ProcMetrics(r) ==
    {OutOf100(v) : v \in UNION {Percents(delta, r) : delta \in CpuParts(r)}}
        \cup {OutOf100(u + s) : u \in Percents(UserTicks(r), r), s \in Percents(r.system, r)}

\* procLoadavg(): half of the load per processor, in percents; the averages are
\* given in hundredths.
Load(hundredths, cpus) == OutOf100(Min({hundredths \div (2 * cpus), 100}))

\* Packets and operations are sent without a max.
Guessed(delta) == [val |-> delta, max |-> -1]
NetMetrics(rx, tx) == {Guessed(rx), Guessed(tx), Guessed(rx + tx)}
DiskMetrics(reads, writes) == {Guessed(reads), Guessed(writes)}
=============================================================================
