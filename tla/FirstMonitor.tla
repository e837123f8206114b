----------------------------- MODULE FirstMonitor -----------------------------
(***************************************************************************)
(* Monitors/monitor.c, the first monitor of the repository, with the       *)
(* threads of its main: readers and writers that ask, use and release for  *)
(* ever.  A thread that was made to wait takes the resource when its       *)
(* condition variable is signalled, without testing anything again and     *)
(* without entering the list of the threads that use the resource.         *)
(* A wake-up without a signal is left out: the model follows the signals.  *)
(***************************************************************************)
EXTENDS FiniteSets, SequencesExt

CONSTANTS FmReaders, FmWriters

FmThreads == FmReaders \cup FmWriters

ASSUME FirstMonitorAssumption == /\ IsFiniteSet(FmThreads)
                                 /\ FmReaders \cap FmWriters = {}

VARIABLES resource_status,
          reader_thread_wait_q, writer_thread_wait_q,  \* youngest first
          resource_using_threads_q,                    \* as a set
          fm_at     \* fm_at[t]: "away", "waiting", "signalled" or "using"

fmVars == <<resource_status, reader_thread_wait_q, writer_thread_wait_q,
            resource_using_threads_q, fm_at>>

FmUsing(S) == {t \in S : fm_at[t] = "using"}
FmBusyBy(t) == IF t \in FmReaders THEN "BUSY_BY_READER" ELSE "BUSY_BY_WRITER"

init_monitor == /\ resource_status = "AVAILABLE"
                /\ reader_thread_wait_q = <<>> /\ writer_thread_wait_q = <<>>
                /\ resource_using_threads_q = {}

\* main.
FmInit == /\ init_monitor
          /\ fm_at = [t \in FmThreads |-> "away"]

-----------------------------------------------------------------------------
monitor_wait_list_client_thread(t) ==
    /\ fm_at' = [fm_at EXCEPT ![t] = "waiting"]
    /\ IF t \in FmReaders
       THEN /\ reader_thread_wait_q' = <<t>> \o reader_thread_wait_q
            /\ UNCHANGED writer_thread_wait_q
       ELSE /\ writer_thread_wait_q' = <<t>> \o writer_thread_wait_q
            /\ UNCHANGED reader_thread_wait_q
    /\ UNCHANGED <<resource_status, resource_using_threads_q>>

\* monitor_request_access_permission, up to the wait of who has to wait.
fm_request(t) ==
    /\ fm_at[t] = "away"
    /\ IF \/ resource_status = "AVAILABLE"
          \/ t \in FmReaders /\ resource_status = "BUSY_BY_READER"
       THEN /\ resource_status' = FmBusyBy(t)
            /\ resource_using_threads_q' = resource_using_threads_q \cup {t}
            /\ fm_at' = [fm_at EXCEPT ![t] = "using"]
            /\ UNCHANGED <<reader_thread_wait_q, writer_thread_wait_q>>
       ELSE monitor_wait_list_client_thread(t)

\* The rest of it, for a thread that was signalled (and is in no list any more).
fm_resume(t) ==
    /\ fm_at[t] = "signalled"
    /\ fm_at' = [fm_at EXCEPT ![t] = "using"]
    /\ resource_status' = FmBusyBy(t)
    /\ UNCHANGED <<reader_thread_wait_q, writer_thread_wait_q, resource_using_threads_q>>

\* Slip: the last thread out looks for waiting readers only.
fm_release_to_readers(t) ==
    LET left == [fm_at EXCEPT ![t] = "away"]
        woken == IF resource_using_threads_q \ {t} = {} THEN ToSet(reader_thread_wait_q) ELSE {}
    IN /\ fm_at[t] = "using"
       /\ resource_using_threads_q' = resource_using_threads_q \ {t}
       /\ fm_at' = [u \in FmThreads |-> IF u \in woken THEN "signalled" ELSE left[u]]
       /\ resource_status' = CASE resource_using_threads_q \ {t} # {} -> resource_status
                               [] woken # {} -> "BUSY_BY_READER"
                               [] OTHER -> "AVAILABLE"
       /\ reader_thread_wait_q' = IF woken # {} THEN <<>> ELSE reader_thread_wait_q
       /\ UNCHANGED writer_thread_wait_q

\* monitor_inform_resource_released: all waiting readers, else the first writer
\* of the list, else nobody.
fm_release(t) ==
    LET left == [fm_at EXCEPT ![t] = "away"]
    IN /\ fm_at[t] = "using"
       /\ resource_using_threads_q' = resource_using_threads_q \ {t}
       /\ CASE resource_using_threads_q \ {t} # {} ->
                 /\ fm_at' = left
                 /\ UNCHANGED <<resource_status, reader_thread_wait_q, writer_thread_wait_q>>
            [] resource_using_threads_q \ {t} = {} /\ reader_thread_wait_q # <<>> ->
                 /\ fm_at' = [u \in FmThreads |-> IF u \in ToSet(reader_thread_wait_q)
                                                  THEN "signalled" ELSE left[u]]
                 /\ resource_status' = "BUSY_BY_READER"
                 /\ reader_thread_wait_q' = <<>>
                 /\ UNCHANGED writer_thread_wait_q
            [] /\ resource_using_threads_q \ {t} = {} /\ reader_thread_wait_q = <<>>
               /\ writer_thread_wait_q # <<>> ->
                 /\ fm_at' = [left EXCEPT ![Head(writer_thread_wait_q)] = "signalled"]
                 /\ resource_status' = "BUSY_BY_WRITER"
                 /\ writer_thread_wait_q' = Tail(writer_thread_wait_q)
                 /\ UNCHANGED reader_thread_wait_q
            [] OTHER ->
                 /\ fm_at' = left /\ resource_status' = "AVAILABLE"
                 /\ UNCHANGED <<reader_thread_wait_q, writer_thread_wait_q>>

thread_fn(t) == fm_request(t) \/ fm_resume(t) \/ fm_release(t)

FmNext == \E t \in FmThreads : thread_fn(t)

FmSpec == FmInit /\ [][FmNext]_fmVars

-----------------------------------------------------------------------------
\* The threads that use the resource are several readers or one writer.
FmWriterAlone ==
    \A t \in FmUsing(FmWriters) : FmUsing(FmThreads) = {t}

\* Whoever waits is in the list of its class, and there is somebody inside or
\* signalled whose release will find it: however wrongly the resource was
\* given away, nobody waits at an idle monitor.
FmNobodyWaitsForNobody ==
    /\ {t \in FmThreads : fm_at[t] = "waiting"} =
          ToSet(reader_thread_wait_q) \cup ToSet(writer_thread_wait_q)
    /\ (\E t \in FmThreads : fm_at[t] = "waiting") =>
          \E t \in FmThreads : fm_at[t] \in {"using", "signalled"}
==============================================================================
