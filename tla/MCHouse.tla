-------------------------------- MODULE MCHouse --------------------------------
(***************************************************************************)
(* What surrounds the sales, side by side: the till's dialogs, its queue and *)
(* its service worker, the ways in, the admin's pages, and the jobs and      *)
(* scripts that keep the house.  The modules share no state, so a behaviour  *)
(* of this one is a behaviour of one of them; part says of which, and the    *)
(* others stay as they start.                                                *)
(***************************************************************************)
EXTENDS Till, TillSync, AppCache, Sessions, Lockout, Otp, RateLimits, DeadLetters, Flags,
        AdminPages, Notices, HealthMonitor, Backup, TillShift, TillMember, TLC

CONSTANTS
    t1, t2    \* the two requests, handlers or runs of whichever part it is

VARIABLE part

HouseParts ==
    {"till", "queue", "shell", "session", "lockout", "otp", "limit", "letters",
     "flags", "pages", "notices", "health", "backup", "shift", "member"}

HouseInit ==
    /\ part \in HouseParts
    /\ TillInit /\ TillSyncInit /\ AppCacheInit /\ SessionInit /\ LockoutInit
    /\ OtpInit /\ LimitInit /\ DeadLettersInit /\ FlagsInit /\ AdminInit
    /\ NoticesInit /\ HealthInit /\ BackupInit /\ TillShiftInit /\ TillMemberInit
    /\ part # "queue" => offline
    /\ part # "session" => redisUp /\ page.reads
    /\ part # "limit" => reachable
    /\ part # "pages" => kind = CashPage

HouseNext ==
    \/ /\ part = "till"
       /\ UNCHANGED <<part, tillSyncVars, cacheVars, sessionVars, lockoutVars, otpVars,
                        limitVars, deadLetterVars, flagVars, adminVars, noticeVars,
                        healthVars, backupVars, tillShiftVars, tillMemberVars>>
       /\ TillNext
    \/ /\ part = "queue"
       /\ UNCHANGED <<part, tillVars, cacheVars, sessionVars, lockoutVars, otpVars,
                        limitVars, deadLetterVars, flagVars, adminVars, noticeVars,
                        healthVars, backupVars, tillShiftVars, tillMemberVars>>
       /\ TillSyncNext
    \/ /\ part = "shell"
       /\ UNCHANGED <<part, tillVars, tillSyncVars, sessionVars, lockoutVars, otpVars,
                        limitVars, deadLetterVars, flagVars, adminVars, noticeVars,
                        healthVars, backupVars, tillShiftVars, tillMemberVars>>
       /\ AppCacheNext
    \/ /\ part = "session"
       /\ UNCHANGED <<part, tillVars, tillSyncVars, cacheVars, lockoutVars, otpVars,
                        limitVars, deadLetterVars, flagVars, adminVars, noticeVars,
                        healthVars, backupVars, tillShiftVars, tillMemberVars>>
       /\ SessionNext
    \/ /\ part = "lockout"
       /\ UNCHANGED <<part, tillVars, tillSyncVars, cacheVars, sessionVars, otpVars,
                        limitVars, deadLetterVars, flagVars, adminVars, noticeVars,
                        healthVars, backupVars, tillShiftVars, tillMemberVars>>
       /\ LockoutNext
    \/ /\ part = "otp"
       /\ UNCHANGED <<part, tillVars, tillSyncVars, cacheVars, sessionVars, lockoutVars,
                        limitVars, deadLetterVars, flagVars, adminVars, noticeVars,
                        healthVars, backupVars, tillShiftVars, tillMemberVars>>
       /\ racing # Codes   \* bound: the properties except the codes in racing
       /\ OtpNext
    \/ /\ part = "limit"
       /\ UNCHANGED <<part, tillVars, tillSyncVars, cacheVars, sessionVars, lockoutVars,
                        otpVars, deadLetterVars, flagVars, adminVars, noticeVars,
                        healthVars, backupVars, tillShiftVars, tillMemberVars>>
       /\ LimitNext
    \/ /\ part = "letters"
       /\ UNCHANGED <<part, tillVars, tillSyncVars, cacheVars, sessionVars, lockoutVars,
                        otpVars, limitVars, flagVars, adminVars, noticeVars, healthVars,
                        backupVars, tillShiftVars, tillMemberVars>>
       /\ DeadLettersNext
    \/ /\ part = "flags"
       /\ UNCHANGED <<part, tillVars, tillSyncVars, cacheVars, sessionVars, lockoutVars,
                        otpVars, limitVars, deadLetterVars, adminVars, noticeVars,
                        healthVars, backupVars, tillShiftVars, tillMemberVars>>
       /\ FlagsNext
    \/ /\ part = "pages"
       /\ UNCHANGED <<part, tillVars, tillSyncVars, cacheVars, sessionVars, lockoutVars,
                        otpVars, limitVars, deadLetterVars, flagVars, noticeVars,
                        healthVars, backupVars, tillShiftVars, tillMemberVars>>
       /\ AdminNext
    \/ /\ part = "notices"
       /\ UNCHANGED <<part, tillVars, tillSyncVars, cacheVars, sessionVars, lockoutVars,
                        otpVars, limitVars, deadLetterVars, flagVars, adminVars,
                        healthVars, backupVars, tillShiftVars, tillMemberVars>>
       /\ NoticesNext
    \/ /\ part = "health"
       /\ UNCHANGED <<part, tillVars, tillSyncVars, cacheVars, sessionVars, lockoutVars,
                        otpVars, limitVars, deadLetterVars, flagVars, adminVars,
                        noticeVars, backupVars, tillShiftVars, tillMemberVars>>
       /\ HealthNext
    \/ /\ part = "backup"
       /\ UNCHANGED <<part, tillVars, tillSyncVars, cacheVars, sessionVars, lockoutVars,
                        otpVars, limitVars, deadLetterVars, flagVars, adminVars,
                        noticeVars, healthVars, tillShiftVars, tillMemberVars>>
       /\ BackupNext
    \/ /\ part = "shift"
       /\ UNCHANGED <<part, tillVars, tillSyncVars, cacheVars, sessionVars, lockoutVars,
                        otpVars, limitVars, deadLetterVars, flagVars, adminVars,
                        noticeVars, healthVars, backupVars, tillMemberVars>>
       /\ TillShiftNext
    \/ /\ part = "member"
       /\ UNCHANGED <<part, tillVars, tillSyncVars, cacheVars, sessionVars, lockoutVars,
                        otpVars, limitVars, deadLetterVars, flagVars, adminVars,
                        noticeVars, healthVars, backupVars, tillShiftVars>>
       /\ TillMemberNext

houseVars ==
    <<part, tillVars, tillSyncVars, cacheVars, sessionVars, lockoutVars, otpVars, limitVars,
      deadLetterVars, flagVars, adminVars, noticeVars, healthVars, backupVars,
      tillShiftVars, tillMemberVars>>

HouseSpec == HouseInit /\ [][HouseNext]_houseVars

-----------------------------------------------------------------------------
HouseSymmetry == Permutations({t1, t2})

-----------------------------------------------------------------------------
\* Rows, requests and what a browser keeps have their shape.
HouseTypeOK ==
    /\ TillTypeOK /\ TillSyncTypeOK /\ AppCacheTypeOK /\ SessionTypeOK /\ LockoutTypeOK
    /\ OtpTypeOK /\ LimitTypeOK /\ DeadLettersTypeOK /\ FlagsTypeOK /\ AdminTypeOK
    /\ NoticesTypeOK /\ MonitorTypeOK /\ BackupTypeOK /\ TillShiftTypeOK /\ TillMemberTypeOK

\* Who tries again and again is stopped: by the count of failures of a cashier, by
\* the code of an admin, and by the limit of requests.
GuessesAreLimited == LimitLocks /\ CodeIsUsedOnce /\ ThreeTries /\ PassedIsBounded

\* Who should know is told, and told what is so: the admin of shifts about to be closed
\* and of months that ended, whoever looks after the containers of the bad ones, and at
\* the till the cashier of the shift and the outlet and the customer of the total; with
\* the exceptions that the five parts name.
PeopleAreTold ==
    /\ NoticesAreRight /\ PagedAtThreshold
    /\ TillKnowsShift /\ OutletIsKept /\ TotalFollowsRedeem

\* What is served from a copy is what the copy was made of: the shell and the
\* answers of the service worker, and the flags.
CopiesAreTrue == []CachesAreWhole /\ SwitchesArrive
=============================================================================
