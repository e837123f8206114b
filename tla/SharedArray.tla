------------------------------ MODULE SharedArray ------------------------------
(***************************************************************************)
(* Two threads on one array: one adds its elements up and asserts the sum, *)
(* the other swaps its ends, for ever.  In MutexExample nothing keeps them *)
(* apart; in atomic_demo each sets an atomic flag before and clears it     *)
(* after, and neither looks at what the flag was.                          *)
(***************************************************************************)
EXTENDS Integers, Sequences

CONSTANT SaFlag         \* the flag is there (atomic_demo)

VARIABLES sa_arr, sa_flag, sa_sum, sum_at, swap_at, swap_temp
saVars == <<sa_arr, sa_flag, sa_sum, sum_at, swap_at, swap_temp>>

SaSize == Len(sa_arr)

\* The summing thread: element sum_at is next; past the end is the assertion.
sum_loop ==
    \/ /\ sum_at \in 1..SaSize
       /\ sa_sum' = sa_sum + sa_arr[sum_at] /\ sum_at' = sum_at + 1
       /\ UNCHANGED <<sa_arr, sa_flag, swap_at, swap_temp>>
    \/ /\ sum_at = SaSize + 1
       /\ sa_sum' = 0 /\ sum_at' = 1
       /\ UNCHANGED <<sa_arr, sa_flag, swap_at, swap_temp>>

\* The swapping thread: temp = arr[0], arr[0] = arr[4], arr[4] = temp.
swap_loop ==
    \/ /\ swap_at = "read" /\ swap_temp' = sa_arr[1] /\ swap_at' = "first"
       /\ UNCHANGED <<sa_arr, sa_flag, sa_sum, sum_at>>
    \/ /\ swap_at = "first" /\ sa_arr' = [sa_arr EXCEPT ![1] = sa_arr[SaSize]] /\ swap_at' = "last"
       /\ UNCHANGED <<sa_flag, sa_sum, sum_at, swap_temp>>
    \/ /\ swap_at = "last" /\ sa_arr' = [sa_arr EXCEPT ![SaSize] = swap_temp]
       /\ swap_at' = IF SaFlag THEN "clear" ELSE "read"
       /\ UNCHANGED <<sa_flag, sa_sum, sum_at, swap_temp>>

\* atomic_flag_test_and_set, whose result is thrown away, and atomic_flag_clear.
flag_of_sum ==
    \/ sum_at = 0 /\ sa_flag' = TRUE /\ sum_at' = 1 /\ UNCHANGED <<sa_arr, sa_sum, swap_at, swap_temp>>
    \/ /\ sum_at = SaSize + 1 /\ sa_flag' = FALSE /\ sum_at' = 0 /\ sa_sum' = 0
       /\ UNCHANGED <<sa_arr, swap_at, swap_temp>>
flag_of_swap ==
    \/ swap_at = "set" /\ sa_flag' = TRUE /\ swap_at' = "read" /\ UNCHANGED <<sa_arr, sa_sum, sum_at, swap_temp>>
    \/ swap_at = "clear" /\ sa_flag' = FALSE /\ swap_at' = "set" /\ UNCHANGED <<sa_arr, sa_sum, sum_at, swap_temp>>

SaInit == /\ sa_arr = <<1, 2, 3, 4, 5>> /\ sa_flag = FALSE /\ sa_sum = 0 /\ swap_temp = 0
          /\ sum_at = IF SaFlag THEN 0 ELSE 1
          /\ swap_at = IF SaFlag THEN "set" ELSE "read"

atomic_sum == flag_of_sum \/ (sum_at <= SaSize /\ sum_loop)
atomic_swap == flag_of_swap \/ swap_loop
SaNext == IF SaFlag THEN atomic_sum \/ atomic_swap ELSE sum_loop \/ swap_loop
SaSpec == SaInit /\ [][SaNext]_saVars

-----------------------------------------------------------------------------
\* The assertion of the summing thread (atomic_demo.c:72): when all elements
\* are added, the sum is that of the array.
SumIsFifteen == sum_at = SaSize + 1 => sa_sum = 15
==============================================================================
