------------------------------ MODULE LogsPage -------------------------------
(***************************************************************************)
(* The logs page of the console: getServiceLogs asks Loki for the newest   *)
(* lines of a window and merges the streams they come in, newest first.    *)
(* A stream has the lines of one set of labels, which name a container of  *)
(* a pod (infra/observability/alloy-values.yaml).                          *)
(* Timestamps are nanoseconds in a string; the merge compares them as      *)
(* JavaScript numbers, which tell apart multiples of 256 ns only.          *)
(* The query and the formatting of times are left out.                     *)
(***************************************************************************)
EXTENDS Integers, FiniteSets, Sequences, Arrange

CONSTANTS
    Labels,         \* the label sets: one for each container of each pod
    MaxTime,        \* bound on time
    Window,         \* LOKI_LOG_WINDOW_MINUTES
    Limit,          \* LOKI_LOG_LIMIT
    Resolution      \* instants that are one JavaScript number

ASSUME LogsPageAssumption ==
    /\ {MaxTime, Window, Limit, Resolution} \subseteq Nat \ {0}
    /\ IsFiniteSet(Labels)

VARIABLES
    logTime,        \* the time
    logLines,       \* what Loki has: one line of a stream per instant at most
    logs            \* the page as it is shown

logsVars == <<logTime, logLines, logs>>

Number(line) == line.at \div Resolution

\* Loki's answer for direction BACKWARD: the newest lines of the window up to
\* the limit, a stream for each set of labels, newest first, the streams in any order.
InWindow == {line \in logLines : line.at >= logTime - Window}

NewestLines(lines) ==
    /\ Cardinality(lines) = IF Cardinality(InWindow) < Limit THEN Cardinality(InWindow)
                            ELSE Limit
    /\ \A line \in lines, other \in InWindow \ lines : line.at >= other.at

Stream(lines, labels) ==
    LET own == {line \in lines : line.labels = labels}
    IN  Arranged(own, {pair \in own \X own : pair[1].at > pair[2].at})

LokiAnswers ==
    LET n == Cardinality(Labels)
        orders == {order \in [1 .. n -> Labels] :
                      \A i, j \in 1 .. n : i # j => order[i] # order[j]}
    IN  {[i \in 1 .. n |-> Stream(lines, order[i])] :
            lines \in {s \in SUBSET InWindow : NewestLines(s)}, order \in orders}

\* The lines of the streams are told apart by stream and place in it; flatMap
\* puts the streams one after the other.
Places(streams) == UNION {{i} \X DOMAIN streams[i] : i \in DOMAIN streams}

FlatMap(p, q) == p[1] < q[1] \/ (p[1] = q[1] /\ p[2] < q[2])

\* Variant: the streams one after the other.
Unsorted(streams) ==
    LET places == Places(streams)
        flat == Arranged(places, {pair \in places \X places : FlatMap(pair[1], pair[2])})
    IN  [k \in DOMAIN flat |-> streams[flat[k][1]][flat[k][2]]]

\* The streams one after the other, then a stable sort by the numbers.
ToLogEntries(streams) ==
    LET places == Places(streams)
        line(p) == streams[p[1]][p[2]]
        before(p, q) == \/ Number(line(p)) > Number(line(q))
                        \/ Number(line(p)) = Number(line(q)) /\ FlatMap(p, q)
        sorted == Arranged(places, {pair \in places \X places : before(pair[1], pair[2])})
    IN  [k \in DOMAIN sorted |-> line(sorted[k])]

FirstOfLimit(lines) == SubSeq(lines, 1, IF Len(lines) < Limit THEN Len(lines) ELSE Limit)

\* slice(0, limit) of an answer, or errors and no entries.
FetchLokiQueryRange ==
    {[error |-> FALSE, entries |-> FirstOfLimit(ToLogEntries(streams))] : streams \in LokiAnswers}
    \union {[error |-> TRUE, entries |-> <<>>]}

\* Loki's answer, or an error of the console's own: Loki is not configured or
\* cannot be reached.  `lines' remembers what Loki had.
GetServiceLogs ==
    {[open |-> TRUE, error |-> r.error, entries |-> r.entries, lines |-> InWindow] :
        r \in FetchLokiQueryRange \union {[error |-> TRUE, entries |-> <<>>]}}

LogsInit ==
    /\ logTime = 1
    /\ logLines = {}
    /\ logs = [open |-> FALSE]

TimePasses ==
    /\ logTime < MaxTime
    /\ logTime' = logTime + 1
    /\ UNCHANGED <<logLines, logs>>

LineLogged(labels) ==
    /\ [labels |-> labels, at |-> logTime] \notin logLines
    /\ logLines' = logLines \union {[labels |-> labels, at |-> logTime]}
    /\ UNCHANGED <<logTime, logs>>

\* The page is opened or loaded anew.
OpenLogs ==
    /\ \E answered \in GetServiceLogs : logs' = answered
    /\ UNCHANGED <<logTime, logLines>>

LogsNext == TimePasses \/ OpenLogs \/ \E labels \in Labels : LineLogged(labels)

-----------------------------------------------------------------------------
\* "newest first": with several streams, a limit, and timestamps that are
\* rounded, the lines of each stream are still in their exact order and without
\* gaps from the newest on, those of different streams, such as two containers
\* of one pod, are in order as far as the numbers tell, and no line left out is
\* newer than one shown.
NewestFirst ==
    (logs.open /\ ~logs.error) =>
        LET entries == logs.entries
            shown == {entries[i] : i \in DOMAIN entries}
        IN  /\ Cardinality(shown) = Len(entries)
            /\ \A i \in DOMAIN entries : \A j \in i + 1 .. Len(entries) :
                  /\ Number(entries[i]) >= Number(entries[j])
                  /\ entries[i].labels = entries[j].labels => entries[i].at > entries[j].at
            /\ \A line \in logs.lines \ shown : \A i \in DOMAIN entries :
                  entries[i].at >= line.at
=============================================================================
