----------------------------- MODULE PackageContract -----------------------------
(***************************************************************************)
(* What a supported TED package identity is, and what one may cost         *)
(* (package_contract.py).  An identity is the record that its canonical    *)
(* text stands for.  Sizes are in MiB, times in seconds.                   *)
(***************************************************************************)
EXTENDS Integers

\* "daily/YYYYNNNNN" names an issue of a year, "monthly/YYYY-MM" a month.
Canonical(id) ==
    /\ id.year \in 0..9999
    /\ \/ id.kind = "daily" /\ id.number \in 0..99999
       \/ id.kind = "monthly" /\ id.number \in 1..12

Supported(id) ==
    /\ Canonical(id)
    /\ id.year \in 1990..2099
    /\ id.number >= 1

-----------------------------------------------------------------------------
(* ResourcePolicy *)

\* What the constructor of a policy insists on.
SoundPolicy(p) ==
    /\ \A field \in DOMAIN p \ {"container_count"} : p[field] > 0
    /\ p.container_count >= 0
    /\ p.download_total_bytes >= p.download_attempts * p.compressed_bytes
    /\ p.api_max_pages * p.api_page_size >= p.notices + p.api_page_size
    /\ p.member_bytes <= p.expanded_bytes
    /\ p.container_bytes <= p.compressed_bytes

DAILY_POLICY == [
    compressed_bytes |-> 64, expanded_bytes |-> 512, member_bytes |-> 8,
    notices |-> 10000, container_count |-> 0, container_bytes |-> 64,
    download_attempts |-> 3, download_total_bytes |-> 192, download_seconds |-> 300,
    chunk_bytes |-> 1, operation_timeout |-> 20,
    backoff_base_seconds |-> 1, backoff_max_seconds |-> 30,
    api_page_size |-> 250, api_max_pages |-> 50, api_page_attempts |-> 3,
    api_response_bytes |-> 4, api_seconds |-> 300]

MONTHLY_POLICY == [DAILY_POLICY EXCEPT
    !.compressed_bytes = 512, !.expanded_bytes = 8 * 1024, !.member_bytes = 32,
    !.notices = 150000, !.container_count = 64, !.download_total_bytes = 1536,
    !.download_seconds = 1800, !.api_max_pages = 620, !.api_seconds = 1800]

\* The module that defines them cannot be imported otherwise.
ASSUME PoliciesAreSound == SoundPolicy(DAILY_POLICY) /\ SoundPolicy(MONTHLY_POLICY)

\* A label that is no supported identity gets the narrowest policy.
policy_for(id) ==
    IF Supported(id) /\ id.kind = "monthly" THEN MONTHLY_POLICY ELSE DAILY_POLICY

-----------------------------------------------------------------------------
(* What an identity asks the source for *)

Leap(year) == year % 4 = 0 /\ (year % 100 # 0 \/ year % 400 = 0)

LastDay(year, month) ==
    CASE month = 2 -> IF Leap(year) THEN 29 ELSE 28
      [] month \in {4, 6, 9, 11} -> 30
      [] OTHER -> 31

\* A day, ordered as the source's dates are.
Day(year, month, day) == (year * 100 + month) * 100 + day

\* The inclusive days of a month, which has no ordinal of its own.
publication_interval(id) ==
    Day(id.year, id.number, 1)..Day(id.year, id.number, LastDay(id.year, id.number))
=============================================================================
