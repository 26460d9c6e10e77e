CONSTANT Size = 5
SPECIFICATION Spec
INVARIANTS TypeOK ListSound IndexConserved
PROPERTY PoolSpec
