SPECIFICATION Spec
INVARIANT TypeOK
INVARIANT SpendsMeetAfterDoubleSpendMined
PROPERTY JoinConverges
