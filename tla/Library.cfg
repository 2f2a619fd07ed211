INIT LibraryInit
NEXT LibraryNext
CONSTANTS
 Character = {1,2,3,4}
 Owner <- MCOwner
 Class <- MCClass
 Initial = 1500
 K = 32
 Week = 7
 Unit = 40
 Clamp = 40
 Expected <- MCExpected
 Pool <- MCPool
 MaxShelf = 4
 NoOne = 0
 Need <- MCNeed
 PageLimit = 3
 RivalCap = 3
 Key = {"k1", "k2"}
 Limit <- MCLimit
 Window <- MCWindow
 SweepEvery = 2
 MaxTicks = 6
 Burst = 2
 PerTick = 1
 Message <- MCMessage
 MaxAssemblies = 2
 IdleTimeout = 0
 TotalTimeout = 1
 MaxFrames = 5
 MaxAgain = 1
 MaxClock = 2
 FrameBytes = 200
 MaxMessageBytes = 16384
 MaxChunks = 256
 SeqDigits = {1, 11}
 Value <- MCValue
 MaxDepth = 3
 MaxStringBytes = 6
 MaxDigits = 2
 MaxDamage = 2
 Payload <- MCPayload
 BlockBytes = 3
INVARIANTS
 PairCap ReplayOrderFree PagesAgree LimitHolds DeliveredWhole ChunksFit RoundTrip
CHECK_DEADLOCK FALSE
