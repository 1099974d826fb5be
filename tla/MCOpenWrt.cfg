CONSTANTS
    u1 = u1
    u2 = u2
    r = r
    Plans <- MCPlans
    Upstream <- MCUpstream
    NoPlan = NoPlan
SPECIFICATION Spec
INVARIANT DnsBackupSafe
PROPERTIES OffStaysEmpty InstallsTheRecord ImplementsContract ReportsTruthfully
